---- MODULE Spec2Model ----
(***************************************************************************)
(* Verification-mail relay: mailbox leasing, wait requests, email/request  *)
(* matching, webhook delivery and the mail polling units.                   *)
(*                                                                          *)
(* Every repository call commits on its own (session.commit() inside each  *)
(* add/update), so a handler is a sequence of atomic store steps; the       *)
(* entities a handler holds between two steps are its own loaded copies.    *)
(* Handlers run on worker threads (the routes are plain def functions), so  *)
(* the steps of different handlers interleave.                              *)
(***************************************************************************)
EXTENDS Integers, Sequences, FiniteSets, TLC

VARIABLES
    mailboxes,      \* mailbox_accounts table: mailbox id -> row
    requests,       \* wait_requests table: sequence of rows, id = index
    emails,         \* emails table: sequence of rows, id = index
    proc,           \* per worker: position in its handler + loaded copies
    sendCount,      \* per wait request: number of WebhookClient.send calls
    clock,          \* datetime.now() at WaitRequest creation and completion
    webhookOn,      \* is a WebhookNotificationService wired into matching
    calls,          \* number of handler invocations so far
    sched,          \* polling: the scheduler (running flag, loop position,
                    \*          free semaphore slots)
    units,          \* polling: per-mailbox unit of work of the current cycle
    cycles          \* polling: number of polling cycles started

vars == <<mailboxes, requests, emails, proc, sendCount, clock, webhookOn,
          calls, sched, units, cycles>>
pollVars == <<sched, units, cycles>>

----------------------------------------------------------------------------
(* Bounds *)

MaxCalls  == 3          \* handler invocations in one run
MaxCycles == 2          \* polling cycles in one run
MaxBatch  == 2          \* messages one fetch returns
MaxPending == 3         \* Pending requests on one address at the start
MaxStarts == 2          \* starts of the polling service in one run

----------------------------------------------------------------------------
(* Values *)

None == "None"

\* handlers in flight at the same time
Workers == {"w1", "w2"}

Mailboxes   == {"m1"}
GoneMailbox == "m0"                     \* id of a mailbox that was deleted

Username(m) == IF m = "m1" THEN "a@x.com" ELSE "b@x.com"

UnknownAddress == "nobody@x.com"

Addresses == {Username(m) : m \in Mailboxes} \cup {UnknownAddress}

Services == {"ai", "B"}

AVAILABLE == "available"
OCCUPIED  == "occupied"

PENDING   == "pending"
COMPLETED == "completed"
CANCELLED == "cancelled"
FAILED    == "failed"

CODE    == "code"
LINK    == "link"
UNKNOWN == "unknown"

----------------------------------------------------------------------------
(* MailboxAccount entity *)

NoMailbox ==
    [id |-> None, username |-> None, status |-> AVAILABLE,
     occupied_by_service |-> None, version |-> 0]

NewMailbox(m) ==
    [id |-> m, username |-> Username(m), status |-> AVAILABLE,
     occupied_by_service |-> None, version |-> 0]

\* an occupy that does not record the service
occupy_StatusOnly(mb, service_name) == [mb EXCEPT !.status = OCCUPIED]

\* an occupy that takes the mailbox over from its occupier
occupy_Overwrite(mb, service_name) ==
    [mb EXCEPT !.status = OCCUPIED, !.occupied_by_service = service_name]

\* MailboxAccount.occupy raises InvalidStateTransitionException, before it
\* touches a field, when the status is OCCUPIED
AlreadyOccupied(mb) == mb.status = OCCUPIED

occupy(mb, service_name) ==
    IF AlreadyOccupied(mb) THEN mb
    ELSE [mb EXCEPT !.status = OCCUPIED,
                    !.occupied_by_service = service_name]

\* a release that sets the status only
release_StatusOnly(mb) == [mb EXCEPT !.status = AVAILABLE]

\* MailboxAccount.release raises InvalidStateTransitionException, before it
\* touches a field, when the status is AVAILABLE
NotOccupied(mb) == mb.status = AVAILABLE

release(mb) ==
    IF NotOccupied(mb) THEN mb
    ELSE [mb EXCEPT !.status = AVAILABLE, !.occupied_by_service = None]

is_occupied(mb) == mb.status = OCCUPIED

----------------------------------------------------------------------------
(* WaitRequest entity *)

NoRequest ==
    [id |-> 0, mailbox_id |-> None, email |-> None, service_name |-> None,
     status |-> PENDING, extraction_result |-> None, completed_at |-> 0,
     failure_reason |-> None, created_at |-> 0, version |-> 0]

\* WaitRequest.create
create(id, mailbox_id, email, service_name, now) ==
    [id |-> id, mailbox_id |-> mailbox_id, email |-> email,
     service_name |-> service_name, status |-> PENDING,
     extraction_result |-> None, completed_at |-> 0,
     failure_reason |-> None, created_at |-> now, version |-> 0]

\* a test that takes every request but a Completed one for Pending
is_pending_UnlessCompleted(r) == r.status # COMPLETED

is_pending(r) == r.status = PENDING

is_terminal(r) == r.status \in {COMPLETED, CANCELLED, FAILED}

\* a completion that drops the extracted value
complete_WithoutValue(r, value, now) ==
    [r EXCEPT !.status = COMPLETED, !.completed_at = now]

\* WaitRequest.complete / cancel / fail: each raises
\* InvalidStateTransitionException, before it touches a field, unless the
\* status is PENDING
InvalidTransition(r) == r.status # PENDING

complete(r, value, now) ==
    IF InvalidTransition(r) THEN r
    ELSE [r EXCEPT !.status = COMPLETED, !.completed_at = now,
                   !.extraction_result = value]

\* a cancel that leaves the request as it is
cancel_NoChange(r) == r

cancel(r) ==
    IF InvalidTransition(r) THEN r ELSE [r EXCEPT !.status = CANCELLED]

\* a fail without the status check
fail_Unguarded(r, reason) ==
    [r EXCEPT !.status = FAILED, !.failure_reason = reason]

fail(r, reason) ==
    IF InvalidTransition(r) THEN r
    ELSE [r EXCEPT !.status = FAILED, !.failure_reason = reason]

----------------------------------------------------------------------------
(* Email entity *)

NoEmail ==
    [id |-> 0, mailbox_id |-> None, message_id |-> None,
     from_address |-> "", subject |-> "", body_text |-> None,
     body_html |-> None, received_at |-> 0, is_processed |-> FALSE]

\* Email.create: a new, unprocessed email
EmailCreate(id, mailbox_id, message_id, from_address, subject, received_at, body_text, body_html) ==
    [id |-> id, mailbox_id |-> mailbox_id, message_id |-> message_id,
     from_address |-> from_address, subject |-> subject,
     body_text |-> body_text, body_html |-> body_html,
     received_at |-> received_at, is_processed |-> FALSE]

has_text_body(e) == e.body_text # None /\ e.body_text # ""

has_html_body(e) == e.body_html # None /\ e.body_html # ""

\* Email.body: text first, then html, else the empty string
body(e) ==
    IF has_text_body(e) THEN e.body_text
    ELSE IF has_html_body(e) THEN e.body_html
    ELSE ""

----------------------------------------------------------------------------
(* ExtractionResult value object *)

NoExtraction == [type |-> UNKNOWN, code |-> None, link |-> None]

\* Results an extractor (any implementation of the protocol) can hand back.
ExtractionResults ==
    { NoExtraction,
      [type |-> CODE, code |-> "123456", link |-> None],
      [type |-> LINK, code |-> None, link |-> "https://x.io/v"],
      [type |-> CODE, code |-> "", link |-> None] }

\* Python truthiness of an Optional[str]
Truthy(s) == s # None /\ s # ""

is_successful(x) == x.type # UNKNOWN /\ (x.code # None \/ x.link # None)

\* "self.code or self.link"
value(x) ==
    IF Truthy(x.code) THEN x.code ELSE x.link

----------------------------------------------------------------------------
(* HttpWebhookClient.send: the script is what the endpoint answers to the  *)
(* successive attempts.                                                     *)

\* retry intervals that double
RETRY_INTERVALS_Doubling == <<1, 2, 4>>

RETRY_INTERVALS == <<1, 5, 15>>

Outcomes == {"2xx", "5xx", "timeout", "raise"}

AllScripts == [1..(Len(RETRY_INTERVALS) + 1) -> Outcomes]

\* the endpoint behaviours a delivery meets in the handler model
Scripts ==
    { <<"2xx", "2xx", "2xx", "2xx">>,
      <<"5xx", "timeout", "5xx", "2xx">>,
      <<"5xx", "5xx", "5xx", "5xx">>,
      <<"5xx", "5xx", "5xx", "timeout">>,
      <<"5xx", "raise", "2xx", "2xx">> }

\* WebhookResult; attempts counts the httpx.post calls that were made and
\* trace lists what send did, in order: 0 for an httpx.post, n > 0 for a
\* time.sleep(n)
NoWebhookResult ==
    [called |-> FALSE, raised |-> FALSE, success |-> FALSE,
     retry_count |-> 0, error_message |-> "", attempts |-> 0, trace |-> <<>>]

RECURSIVE SendFrom(_, _, _)
SendFrom(script, attempt, last_error) ==
    IF attempt >= Len(RETRY_INTERVALS) + 1
    THEN [called |-> TRUE, raised |-> FALSE, success |-> FALSE,
          retry_count |-> Len(RETRY_INTERVALS), error_message |-> last_error,
          attempts |-> attempt, trace |-> <<>>]
    ELSE LET answer == script[attempt + 1]
         IN  IF answer = "2xx"
             THEN [called |-> TRUE, raised |-> FALSE, success |-> TRUE,
                   retry_count |-> attempt, error_message |-> "",
                   attempts |-> attempt + 1, trace |-> <<0>>]
             ELSE IF answer = "raise"
             THEN [called |-> TRUE, raised |-> TRUE, success |-> FALSE,
                   retry_count |-> attempt, error_message |-> last_error,
                   attempts |-> attempt + 1, trace |-> <<0>>]
             ELSE LET rest == SendFrom(script, attempt + 1,
                                       IF answer = "5xx" THEN "HTTP 500"
                                       ELSE "Request timeout")
                      sleep == IF attempt < Len(RETRY_INTERVALS)
                               THEN <<RETRY_INTERVALS[attempt + 1]>>
                               ELSE <<>>
                  IN  [rest EXCEPT !.trace = <<0>> \o sleep \o @]

\* a send whose loop counter starts at 1
send_SkipFirst(script) == SendFrom(script, 1, "")

send(script) == SendFrom(script, 0, "")

\* WebhookPayload, as notify builds it
NoPayload ==
    [request_id |-> 0, type |-> None, value |-> None, email |-> None,
     service |-> None, received_at |-> 0]

WebhookPayload(wait_request, extraction_type, extraction_value, received_at) ==
    [request_id |-> wait_request.id, type |-> extraction_type,
     value |-> extraction_value, email |-> wait_request.email,
     service |-> wait_request.service_name, received_at |-> received_at]

----------------------------------------------------------------------------
(* Repositories: every update copies the entity's columns, the version     *)
(* column included, over the row found by id and commits.                   *)

MailboxUpdate(rows, entity) ==
    IF entity.id \in DOMAIN rows
    THEN [rows EXCEPT ![entity.id] = entity]
    ELSE rows

\* an update that is lost
WaitRequestUpdate_Lost(rows, entity) == rows

WaitRequestUpdate(rows, entity) ==
    IF entity.id \in DOMAIN rows
    THEN [rows EXCEPT ![entity.id] = entity]
    ELSE rows

\* a lookup that finds a free mailbox under every address
get_by_username_AlwaysFree(username) == NewMailbox("m1")

get_by_username(username) ==
    IF \E m \in DOMAIN mailboxes : mailboxes[m].username = username
    THEN mailboxes[CHOOSE m \in DOMAIN mailboxes :
                       mailboxes[m].username = username]
    ELSE NoMailbox

\* a lookup that finds a mailbox whatever the id
mailbox_get_by_id_Always(m) == mailboxes[CHOOSE k \in DOMAIN mailboxes : TRUE]

mailbox_get_by_id(m) ==
    IF m \in DOMAIN mailboxes THEN mailboxes[m] ELSE NoMailbox

request_get_by_id(rid) ==
    IF rid \in DOMAIN requests THEN requests[rid] ELSE NoRequest

----------------------------------------------------------------------------
(* Workers *)

IdleProc ==
    [pc |-> "idle", op |-> None, arg |-> 0, result |-> None,
     current_status |-> None, warned |-> FALSE,
     mbx |-> NoMailbox, req |-> NoRequest, svc |-> None, addr |-> None,
     email |-> NoEmail, single |-> NoRequest, ext |-> NoExtraction,
     wres |-> NoWebhookResult, payload |-> NoPayload,
     mbxStale |-> FALSE, reqStale |-> FALSE,
     queue |-> <<>>, loaded |-> <<>>, results |-> <<>>, limit |-> 0,
     passed |-> {}]

AtRest(p) == proc[p].pc = "idle"

\* MatchResult as the sweep records it: process_email's result, or
\* MatchResult(matched=False, message="Processing error: ...")
MatchResult(result) ==
    [matched |-> result \in {"matched", "matched_not_extracted"},
     error   |-> result = "raised",
     message |-> result]

\* Idle workers are interchangeable: the next call runs on the first one.
CanStart(p) ==
    /\ calls < MaxCalls
    /\ AtRest(p)
    /\ \A q \in Workers : AtRest(q) => ~(q \in {"w1"} /\ p # q)

\* History of the store: after worker p commits row id, every copy of that
\* row another worker still holds was loaded before the commit.
MailboxCommitted(pr, p, id) ==
    [q \in Workers |->
        IF q # p /\ pr[q].mbx.id = id
        THEN [pr[q] EXCEPT !.mbxStale = TRUE] ELSE pr[q]]

RequestCommitted(pr, p, id) ==
    [q \in Workers |->
        IF q # p /\ pr[q].req.id = id
        THEN [pr[q] EXCEPT !.reqStale = TRUE] ELSE pr[q]]

\* a sweep that ends at the first email whose processing raised
SweepItemDone_StopOnError(pr, result) ==
    [IdleProc EXCEPT !.op = "sweep", !.pc = "sw_next",
                     !.queue = IF result = "raised" THEN <<>> ELSE pr.queue,
                     !.loaded = pr.loaded, !.limit = pr.limit,
                     !.passed = IF result = "unmatched"
                                THEN pr.passed \cup {pr.email.id}
                                ELSE pr.passed,
                     !.results = Append(pr.results, MatchResult(result))]

\* process_unprocessed_emails, one turn of its loop: the MatchResult that
\* process_email returned, or the unmatched one made for an exception, is
\* appended to results and the loop goes on. passed keeps, over the
\* sweeps of the run, the emails that a sweep got back unmatched.
SweepItemDone(pr, result) ==
    [IdleProc EXCEPT !.op = "sweep", !.pc = "sw_next",
                     !.queue = pr.queue,
                     !.loaded = pr.loaded, !.limit = pr.limit,
                     !.passed = IF result = "unmatched"
                                THEN pr.passed \cup {pr.email.id}
                                ELSE pr.passed,
                     !.results = Append(pr.results, MatchResult(result))]

\* process_email returns or raises: to the handler, which returns and
\* leaves only its result visible, or to the sweep that called it
Finish(p, op, result) ==
    IF proc[p].op = "sweep"
    THEN [proc EXCEPT ![p] = SweepItemDone(proc[p], result)]
    ELSE [proc EXCEPT ![p] = [IdleProc EXCEPT !.op = op, !.result = result]]

\* CancelWaitRequestHandler returns success for request rid; warned tells
\* whether _release_mailbox logged "Failed to release mailbox"
FinishCancel(p, rid, warned) ==
    [proc EXCEPT ![p] = [IdleProc EXCEPT !.op = "cancel", !.result = "OK",
                                         !.arg = rid, !.warned = warned]]

----------------------------------------------------------------------------
(* RegisterWaitRequestHandler.handle *)

\* steps 1-2: load the mailbox by address, check it, occupy the copy
RW_Get(p, address, service) ==
    /\ CanStart(p)
    /\ LET mailbox == get_by_username(address)
           started == [IdleProc EXCEPT !.op = "register"]
       IN  proc' =
             IF mailbox.id = None
             THEN [proc EXCEPT ![p] =
                     [started EXCEPT !.result = "MAILBOX_NOT_FOUND"]]
             ELSE IF mailbox.status = OCCUPIED
             THEN [proc EXCEPT ![p] =
                     [started EXCEPT !.result = "MAILBOX_OCCUPIED"]]
             ELSE [proc EXCEPT ![p] =
                     [started EXCEPT !.pc = "rw_update", !.addr = address,
                                     !.svc = service,
                                     !.mbx = occupy(mailbox, service)]]
    /\ UNCHANGED <<mailboxes, requests, emails, sendCount, clock, webhookOn>>
    /\ calls' = calls + 1
    /\ UNCHANGED pollVars

\* step 3: mailbox_repo.update(mailbox)
RW_Update(p) ==
    /\ proc[p].pc = "rw_update"
    /\ mailboxes' = MailboxUpdate(mailboxes, proc[p].mbx)
    /\ proc' = MailboxCommitted([proc EXCEPT ![p].pc = "rw_add"],
                                p, proc[p].mbx.id)
    /\ UNCHANGED <<requests, emails, sendCount, clock, webhookOn>>
    /\ calls' = calls
    /\ UNCHANGED pollVars

\* step 4: WaitRequest.create + wait_request_repo.add
RW_Add(p) ==
    /\ proc[p].pc = "rw_add"
    /\ LET rid == Len(requests) + 1
           wr  == create(rid, proc[p].mbx.id, proc[p].addr, proc[p].svc, clock)
       IN  /\ requests' = Append(requests, wr)
           /\ sendCount' = Append(sendCount, 0)
           /\ proc' = Finish(p, "register", "OK")
    /\ clock' = clock + 1
    /\ UNCHANGED <<mailboxes, emails, webhookOn>>
    /\ calls' = calls
    /\ UNCHANGED pollVars

\* step 4 when wait_request_repo.add raises (the commit fails): nothing
\* catches the exception and nothing undoes the mailbox update of step 3
RW_AddRaises(p) ==
    /\ proc[p].pc = "rw_add"
    /\ proc' = Finish(p, "register", "raised")
    /\ UNCHANGED <<mailboxes, requests, emails, sendCount, clock, webhookOn>>
    /\ calls' = calls
    /\ UNCHANGED pollVars

----------------------------------------------------------------------------
(* CancelWaitRequestHandler.handle *)

\* steps 1-3 up to the write: load the request, check it, cancel the copy
CW_Get(p, rid) ==
    /\ CanStart(p)
    /\ LET wr      == request_get_by_id(rid)
           started == [IdleProc EXCEPT !.op = "cancel"]
       IN  proc' =
             IF wr.id = 0
             THEN [proc EXCEPT ![p] = [started EXCEPT !.result = "NOT_FOUND"]]
             ELSE IF ~is_pending(wr)
             THEN [proc EXCEPT ![p] =
                     [started EXCEPT !.result = "ALREADY_TERMINAL",
                                     !.current_status = wr.status]]
             ELSE [proc EXCEPT ![p] =
                     [started EXCEPT !.pc = "cw_update", !.req = cancel(wr)]]
    /\ UNCHANGED <<mailboxes, requests, emails, sendCount, clock, webhookOn>>
    /\ calls' = calls + 1
    /\ UNCHANGED pollVars

\* step 3: wait_request_repo.update(wait_request)
CW_Update(p) ==
    /\ proc[p].pc = "cw_update"
    /\ requests' = WaitRequestUpdate(requests, proc[p].req)
    /\ proc' = RequestCommitted([proc EXCEPT ![p].pc = "cw_release"],
                                p, proc[p].req.id)
    /\ UNCHANGED <<mailboxes, emails, sendCount, clock, webhookOn>>
    /\ calls' = calls
    /\ UNCHANGED pollVars

\* step 4, _release_mailbox: load the mailbox, release the copy if occupied
CW_ReleaseGet(p) ==
    /\ proc[p].pc = "cw_release"
    /\ LET mailbox == mailbox_get_by_id(proc[p].req.mailbox_id)
       IN  proc' =
             IF mailbox.id = None \/ ~is_occupied(mailbox)
             THEN FinishCancel(p, proc[p].req.id, FALSE)
             ELSE [proc EXCEPT ![p].pc = "cw_release_update",
                               ![p].mbx = release(mailbox),
                               ![p].mbxStale = FALSE]
    /\ UNCHANGED <<mailboxes, requests, emails, sendCount, clock, webhookOn>>
    /\ calls' = calls
    /\ UNCHANGED pollVars

\* step 4, _release_mailbox: mailbox_repo.update(mailbox); an exception of
\* the store is caught and logged
CW_ReleaseUpdate(p) ==
    /\ proc[p].pc = "cw_release_update"
    /\ \/ /\ mailboxes' = MailboxUpdate(mailboxes, proc[p].mbx)
          /\ proc' = MailboxCommitted(FinishCancel(p, proc[p].req.id, FALSE),
                                      p, proc[p].mbx.id)
       \/ /\ mailboxes' = mailboxes
          /\ proc' = FinishCancel(p, proc[p].req.id, TRUE)
    /\ UNCHANGED <<requests, emails, sendCount, clock, webhookOn>>
    /\ calls' = calls
    /\ UNCHANGED pollVars

----------------------------------------------------------------------------
(* Strings that take part in matching, as character sequences *)

Chars(s) ==
    CASE s = "ai"   -> <<"a", "i">>
      [] s = "B"    -> <<"B">>
      [] s = "x@AI" -> <<"x", "@", "A", "I">>
      [] s = "b!"   -> <<"b", "!">>
      [] s = "hi"   -> <<"h", "i">>
      [] s = "z"    -> <<"z">>
      [] OTHER      -> <<>>

LowerChar(c) ==
    CASE c = "A" -> "a"
      [] c = "B" -> "b"
      [] c = "I" -> "i"
      [] OTHER   -> c

\* str.lower()
lower(cs) == [i \in 1..Len(cs) |-> LowerChar(cs[i])]

\* "needle in hay" on strings
contains(needle, hay) ==
    \E i \in 0..(Len(hay) - Len(needle)) :
        SubSeq(hay, i + 1, i + Len(needle)) = needle

----------------------------------------------------------------------------
(* MailRequestMatchingService._find_matching_request / _smart_match *)

PendingIds(address) ==
    {i \in DOMAIN requests :
        requests[i].email = address /\ requests[i].status = PENDING}

\* get_all_pending_by_email: ORDER BY created_at ASC
RECURSIVE OrderByCreatedAt(_)
OrderByCreatedAt(ids) ==
    IF ids = {} THEN <<>>
    ELSE LET first == CHOOSE i \in ids :
                        \A j \in ids :
                           \/ requests[i].created_at < requests[j].created_at
                           \/ /\ requests[i].created_at = requests[j].created_at
                              /\ i <= j
         IN  <<requests[first]>> \o OrderByCreatedAt(ids \ {first})

get_all_pending_by_email(address) == OrderByCreatedAt(PendingIds(address))

ServiceMatches(r, email) ==
    \/ contains(lower(Chars(r.service_name)), lower(Chars(email.from_address)))
    \/ contains(lower(Chars(r.service_name)), lower(Chars(email.subject)))

\* min(pending_requests, key=created_at): the first minimal element
Oldest(pending) ==
    pending[CHOOSE i \in 1..Len(pending) :
               /\ \A j \in 1..Len(pending) :
                     pending[i].created_at <= pending[j].created_at
               /\ \A j \in 1..(i - 1) :
                     pending[j].created_at > pending[i].created_at]

\* a match that only ever takes the oldest request
smart_match_FifoOnly(pending, email) == Oldest(pending)

\* the list is not empty
smart_match(pending, email) ==
    IF \E i \in 1..Len(pending) : ServiceMatches(pending[i], email)
    THEN pending[CHOOSE i \in 1..Len(pending) :
                    /\ ServiceMatches(pending[i], email)
                    /\ \A j \in 1..(i - 1) : ~ServiceMatches(pending[j], email)]
    ELSE Oldest(pending)

----------------------------------------------------------------------------
(* EmailRepository.update: copies the entity over the row found by id *)

EmailUpdate(rows, entity) ==
    IF entity.id \in DOMAIN rows
    THEN [rows EXCEPT ![entity.id] = entity]
    ELSE rows

\* a marking that flips the flag
mark_as_processed_Toggle(e) == [e EXCEPT !.is_processed = ~e.is_processed]

\* Email.mark_as_processed raises InvalidOperationException, before it sets
\* the flag, when the email is already processed
AlreadyProcessed(e) == e.is_processed

mark_as_processed(e) ==
    IF AlreadyProcessed(e) THEN e ELSE [e EXCEPT !.is_processed = TRUE]

\* _mark_processed_if_needed, called with mark_as_processed=True
mark_processed_if_needed(e) ==
    IF ~e.is_processed THEN mark_as_processed(e) ELSE e

FailureReason(error_message) ==
    CASE error_message = "HTTP 500"        -> "Webhook failed: HTTP 500"
      [] error_message = "Request timeout" -> "Webhook failed: Request timeout"
      [] OTHER                             -> "Webhook failed: "

----------------------------------------------------------------------------
(* ProcessEmailHandler.handle and the MailRequestMatchingService.          *)
(* process_email it calls with an email it loaded as unprocessed.           *)

\* an id that no stored email has
MissingEmail == 0

EmailIds == DOMAIN emails \cup {MissingEmail}

\* email_repo.get_by_id, then the is_processed test of the loaded copy
PE_Load(p, eid) ==
    /\ CanStart(p)
    /\ proc' =
          IF eid \notin DOMAIN emails
          THEN Finish(p, "process", "EMAIL_NOT_FOUND")
          ELSE IF emails[eid].is_processed
          THEN Finish(p, "process", "EMAIL_ALREADY_PROCESSED")
          ELSE [proc EXCEPT ![p] =
                  [IdleProc EXCEPT !.op = "process", !.pc = "pe_mailbox",
                                   !.email = emails[eid]]]
    /\ UNCHANGED <<mailboxes, requests, emails, sendCount, clock, webhookOn>>
    /\ calls' = calls + 1
    /\ UNCHANGED pollVars

\* 1. mailbox_repo.get_by_id(email.mailbox_id)
PE_GetMailbox(p) ==
    /\ proc[p].pc = "pe_mailbox"
    /\ LET mailbox == mailbox_get_by_id(proc[p].email.mailbox_id)
       IN  proc' =
             IF mailbox.id = None
             THEN Finish(p, "process", "unmatched")
             ELSE [proc EXCEPT ![p].pc = "pe_find", ![p].mbx = mailbox]
    /\ UNCHANGED <<mailboxes, requests, emails, sendCount, clock, webhookOn>>
    /\ calls' = calls
    /\ UNCHANGED pollVars

\* 2. _find_matching_request: get_pending_by_email (.first(), no ordering)
PE_FindSingle(p) ==
    /\ proc[p].pc = "pe_find"
    /\ LET ids == PendingIds(proc[p].mbx.username)
       IN  \/ /\ ids = {}
              /\ proc' = Finish(p, "process", "unmatched")
           \/ \E i \in ids :
                 proc' = [proc EXCEPT ![p].pc = "pe_find_all",
                                      ![p].single = requests[i]]
    /\ UNCHANGED <<mailboxes, requests, emails, sendCount, clock, webhookOn>>
    /\ calls' = calls
    /\ UNCHANGED pollVars

\* 2. _find_matching_request: get_all_pending_by_email, then the choice;
\*    min() of an empty list raises.
PE_FindAll(p) ==
    /\ proc[p].pc = "pe_find_all"
    /\ LET all_pending == get_all_pending_by_email(proc[p].mbx.username)
       IN  proc' =
             IF Len(all_pending) = 1
             THEN [proc EXCEPT ![p].pc = "pe_extract",
                               ![p].req = proc[p].single]
             ELSE IF Len(all_pending) = 0
             THEN Finish(p, "process", "raised")
             ELSE [proc EXCEPT ![p].pc = "pe_extract",
                               ![p].req = smart_match(all_pending,
                                                      proc[p].email)]
    /\ UNCHANGED <<mailboxes, requests, emails, sendCount, clock, webhookOn>>
    /\ calls' = calls
    /\ UNCHANGED pollVars

\* 3-5. unified_extract_from_email(email, mark_as_processed=True),
\*      email_repo.update(email), wait_request.complete(value)
PE_Extract(p) ==
    /\ proc[p].pc = "pe_extract"
    /\ \E x \in ExtractionResults :
          LET empty  == body(proc[p].email) = ""
              result == IF empty THEN NoExtraction ELSE x
              email  == IF empty THEN proc[p].email
                        ELSE mark_processed_if_needed(proc[p].email)
          IN  /\ emails' = EmailUpdate(emails, email)
              /\ IF is_successful(result)
                 THEN /\ proc' = [proc EXCEPT
                            ![p].pc = "pe_update_request",
                            ![p].email = email, ![p].ext = result,
                            ![p].req = complete(proc[p].req, value(result),
                                                clock)]
                 ELSE /\ proc' = Finish(p, "process", "matched_not_extracted")
    /\ UNCHANGED <<mailboxes, requests, sendCount, clock, webhookOn>>
    /\ calls' = calls
    /\ UNCHANGED pollVars

\* 5. wait_request_repo.update(wait_request)
PE_UpdateRequest(p) ==
    /\ proc[p].pc = "pe_update_request"
    /\ requests' = WaitRequestUpdate(requests, proc[p].req)
    /\ proc' = RequestCommitted(
                  IF webhookOn
                  THEN [proc EXCEPT ![p].pc = "notify_send"]
                  ELSE Finish(p, "process", "matched"),
                  p, proc[p].req.id)
    /\ UNCHANGED <<mailboxes, emails, sendCount, clock, webhookOn>>
    /\ calls' = calls
    /\ UNCHANGED pollVars

----------------------------------------------------------------------------
(* WebhookNotificationService.notify *)

\* 2-3. webhook_client.send; on failure fail a request that is still
\*      PENDING in the caller's copy and write it
Notify_Send(p) ==
    /\ proc[p].pc = "notify_send"
    /\ \E script \in Scripts :
          LET res == send(script)
              wr  == proc[p].req
              pay == WebhookPayload(wr, proc[p].ext.type, value(proc[p].ext),
                                    proc[p].email.received_at)
          IN  /\ sendCount' = [sendCount EXCEPT ![wr.id] = @ + 1]
              /\ IF res.raised
                 THEN /\ proc' = Finish(p, "process", "raised")
                      /\ requests' = requests
                 ELSE IF res.success
                 THEN /\ proc' = [proc EXCEPT ![p].pc = "notify_release",
                                              ![p].wres = res,
                                              ![p].payload = pay]
                      /\ requests' = requests
                 ELSE IF is_pending(wr)
                 THEN LET failed == fail(wr, FailureReason(res.error_message))
                      IN  /\ proc' = RequestCommitted(
                                        [proc EXCEPT
                                            ![p].pc = "notify_release",
                                            ![p].wres = res,
                                            ![p].payload = pay,
                                            ![p].req = failed],
                                        p, wr.id)
                          /\ requests' = WaitRequestUpdate(requests, failed)
                 ELSE /\ proc' = [proc EXCEPT ![p].pc = "notify_release",
                                              ![p].wres = res,
                                              ![p].payload = pay]
                      /\ requests' = requests
    /\ UNCHANGED <<mailboxes, emails, clock, webhookOn>>
    /\ calls' = calls
    /\ UNCHANGED pollVars

\* _release_mailbox: load the mailbox, release the copy if occupied
Notify_ReleaseGet(p) ==
    /\ proc[p].pc = "notify_release"
    /\ LET mailbox == mailbox_get_by_id(proc[p].req.mailbox_id)
       IN  proc' =
             IF mailbox.id = None \/ ~is_occupied(mailbox)
             THEN Finish(p, "process", "matched")
             ELSE [proc EXCEPT ![p].pc = "notify_release_update",
                               ![p].mbx = release(mailbox),
                               ![p].mbxStale = FALSE]
    /\ UNCHANGED <<mailboxes, requests, emails, sendCount, clock, webhookOn>>
    /\ calls' = calls
    /\ UNCHANGED pollVars

\* _release_mailbox: mailbox_repo.update(mailbox)
Notify_ReleaseUpdate(p) ==
    /\ proc[p].pc = "notify_release_update"
    /\ mailboxes' = MailboxUpdate(mailboxes, proc[p].mbx)
    /\ proc' = MailboxCommitted(Finish(p, "process", "matched"),
                                p, proc[p].mbx.id)
    /\ UNCHANGED <<requests, emails, sendCount, clock, webhookOn>>
    /\ calls' = calls
    /\ UNCHANGED pollVars

----------------------------------------------------------------------------
(* EmailProcessingService.process_unprocessed_emails *)

\* a list_unprocessed that returns the newest rows first
list_unprocessed_NewestFirst(rows, limit) ==
    LET ids == { k \in DOMAIN rows : ~rows[k].is_processed }
        n   == IF limit < Cardinality(ids) THEN limit ELSE Cardinality(ids)
        ord == CHOOSE f \in [1..Cardinality(ids) -> ids] :
                 \A i, j \in 1..Cardinality(ids) :
                    i < j => rows[f[i]].received_at > rows[f[j]].received_at
    IN  [i \in 1..n |-> rows[ord[i]]]

\* EmailRepository.list_unprocessed: is_processed = False, ORDER BY
\* received_at ASC, LIMIT limit. The stored emails have distinct
\* received_at, so the order is determined.
list_unprocessed(rows, limit) ==
    LET ids == { k \in DOMAIN rows : ~rows[k].is_processed }
        n   == IF limit < Cardinality(ids) THEN limit ELSE Cardinality(ids)
        ord == CHOOSE f \in [1..Cardinality(ids) -> ids] :
                 \A i, j \in 1..Cardinality(ids) :
                    i < j => rows[f[i]].received_at < rows[f[j]].received_at
    IN  [i \in 1..n |-> rows[ord[i]]]

\* the limits a sweep is called with (the default is 100)
SweepLimits == {1, 2}

\* emails = list_unprocessed(limit); results = []
SW_Load(p, limit) ==
    /\ AtRest(p)
    /\ LET loaded == list_unprocessed(emails, limit)
       IN  proc' = [proc EXCEPT ![p] =
                      [IdleProc EXCEPT !.op = "sweep", !.pc = "sw_next",
                                       !.queue = loaded, !.loaded = loaded,
                                       !.limit = limit,
                                       !.passed = proc[p].passed]]
    /\ UNCHANGED <<mailboxes, requests, emails, sendCount, clock, webhookOn,
                   calls>>
    /\ UNCHANGED pollVars

\* for email in emails: process_email(email) on the copy that was loaded;
\* after the last one the BatchProcessResult is returned
SW_Next(p) ==
    /\ proc[p].pc = "sw_next"
    /\ proc' =
          IF proc[p].queue = <<>>
          THEN [proc EXCEPT ![p] =
                  [IdleProc EXCEPT !.op = "swept",
                                   !.loaded = proc[p].loaded,
                                   !.limit = proc[p].limit,
                                   !.passed = proc[p].passed,
                                   !.results = proc[p].results]]
          ELSE [proc EXCEPT ![p].pc = "pe_mailbox",
                            ![p].email = Head(proc[p].queue),
                            ![p].queue = Tail(proc[p].queue)]
    /\ UNCHANGED <<mailboxes, requests, emails, sendCount, clock, webhookOn,
                   calls>>
    /\ UNCHANGED pollVars

----------------------------------------------------------------------------
(* Emails the polling service has stored before the run *)

EmailTemplate(n) ==
    CASE n = 1 ->
           [mailbox_id |-> "m1", message_id |-> "<1@ai>",
            from_address |-> "x@AI", subject |-> "hi",
            body_text |-> "text", body_html |-> None]
      [] n = 2 ->
           [mailbox_id |-> "m1", message_id |-> "<2@b>",
            from_address |-> "z", subject |-> "b!",
            body_text |-> None, body_html |-> "html"]
      [] n = 3 ->
           [mailbox_id |-> "m1", message_id |-> "<3@z>",
            from_address |-> "z", subject |-> "hi",
            body_text |-> "", body_html |-> None]
      [] OTHER ->
           [mailbox_id |-> GoneMailbox, message_id |-> "<4@z>",
            from_address |-> "z", subject |-> "hi",
            body_text |-> "text", body_html |-> None]

StoredEmail(t, id) ==
    EmailCreate(id, t.mailbox_id, t.message_id, t.from_address, t.subject, id,
                t.body_text, t.body_html)

InitialEmailStores ==
    { <<StoredEmail(EmailTemplate(1), 1), StoredEmail(EmailTemplate(2), 2)>>,
      <<StoredEmail(EmailTemplate(3), 1), StoredEmail(EmailTemplate(4), 2)>> }

----------------------------------------------------------------------------
(* AsyncMailPollingService *)

\* the service as configured: max_concurrent_connections
max_concurrent == 2

PollMailboxes == {"m1", "m2"}

MessageIds == {"<1@ai>", "<2@b>"}

\* what fetch_new_emails can return: the same Message-ID may come twice in
\* one batch, again in a later cycle, and from two mailboxes
Batches == UNION {[1..n -> MessageIds] : n \in 0..MaxBatch}

\* the service before start() and after stop(). max is the configured
\* max_concurrent_connections; task, semaphore and executor name the objects
\* the service holds (0 for None), starts counts the starts that created
\* them; loops counts the _polling_loop tasks alive; orphans counts the
\* fetch_new_emails calls that a worker of the executor still runs for a
\* unit that has left, old the calls that workers of shut-down executors
\* still run; warned tells that start() logged "already running"; prev is
\* the mailbox list of the cycle before; idle_stop tells that stop() ran
\* on a service that held no loop task; late tells that, since the last
\* stop(), a call of a shut-down executor has returned.
Stopped ==
    [running |-> FALSE, pc |-> "stopped", free |-> 0, max |-> max_concurrent,
     task |-> 0, semaphore |-> 0, executor |-> 0, starts |-> 0, loops |-> 0,
     orphans |-> 0, old |-> 0, warned |-> FALSE, prev |-> {},
     idle_stop |-> FALSE, late |-> FALSE]

NoUnits == [m \in {} |-> 0]

\* one _poll_single_mailbox_with_timeout coroutine. job is the state of its
\* run_in_executor work item: "queued" until a worker of the pool takes it,
\* then "running"; started tells whether fetch_new_emails was ever entered;
\* failed tells that a commit of the unit's repository raised: the unit has
\* one repository, so one Session, for its whole batch, add() does not roll
\* back, and a Session whose flush failed raises on every later use until
\* rollback() is called.
NewUnit ==
    [pc |-> "waiting", batch |-> <<>>, i |-> 1, saved |-> 0, job |-> "none",
     started |-> FALSE, failed |-> FALSE]

UnitDone(u) == u.pc \in {"done", "timeout", "error"}

exists_by_message_id(rows, message_id) ==
    \E k \in DOMAIN rows : rows[k].message_id = message_id

\* an emails table without the unique index on message_id
AddRaises_NoUniqueIndex(rows, email) == FALSE

\* EmailRepository.add: session.add + commit; the message_id column is
\* unique, so the commit of a second row with the same Message-ID raises
AddRaises(rows, email) == exists_by_message_id(rows, email.message_id)

EmailAdd(rows, email) ==
    IF AddRaises(rows, email) THEN rows ELSE Append(rows, email)

\* _convert_to_email
convert_to_email(rows, m, message_id, now) ==
    EmailCreate(Len(rows) + 1, m, message_id, "z", "hi", now, "text", None)

\* workers of the ThreadPoolExecutor (max_workers = max_concurrent) that
\* are inside fetch_new_emails
Busy(s, us) ==
    s.orphans + Cardinality({ m \in DOMAIN us : us[m].job = "running" })

\* a start() that does not look at _running
AlreadyRunning_Never(s) == FALSE

\* start(): "if self._running: ... return"
AlreadyRunning(s) == s.running

\* start(): a warning and nothing else when already running; otherwise a
\* new Semaphore, a new ThreadPoolExecutor and a new _polling_loop task,
\* whose first cycle comes before any sleep
Poll_Start ==
    /\ IF AlreadyRunning(sched)
       THEN sched' = [sched EXCEPT !.warned = TRUE]
       ELSE /\ sched.starts < MaxStarts
            /\ sched' = [sched EXCEPT !.running = TRUE, !.pc = "cycle",
                                      !.free = sched.max,
                                      !.task = sched.starts + 1,
                                      !.semaphore = sched.starts + 1,
                                      !.executor = sched.starts + 1,
                                      !.starts = @ + 1, !.loops = @ + 1,
                                      !.prev = {}, !.late = FALSE]
    /\ UNCHANGED <<mailboxes, requests, emails, proc, sendCount, clock,
                   webhookOn, calls, units, cycles>>

\* a stop() that waits for the fetch_new_emails calls in the workers
Interruptible_UnlessFetching(u) ==
    u.pc \notin {"check", "add"} /\ u.job # "running"

\* a unit can be cancelled wherever it awaits: at the semaphore, in
\* wait_for around the executor future, or when it has returned; the save
\* loop of _poll_single_mailbox awaits nothing
Interruptible(u) == u.pc \notin {"check", "add"}

\* a stop() that leaves the worker pool in place
stop_KeepsExecutor(s, us) ==
    [s EXCEPT !.running = FALSE, !.pc = "stopped", !.free = 0, !.task = 0,
              !.semaphore = 0,
              !.loops = IF s.task # 0 THEN @ - 1 ELSE @,
              !.orphans = 0, !.prev = {},
              !.idle_stop = @ \/ s.task = 0]

\* stop(): the fields of the service when it returns. "if self._task"
\* cancels and awaits the loop, "if self._executor" shuts the pool down
\* without waiting, so the calls its workers run go on (old)
stop(s, us) ==
    [s EXCEPT !.running = FALSE, !.pc = "stopped", !.free = 0, !.task = 0,
              !.semaphore = 0, !.executor = 0,
              !.loops = IF s.task # 0 THEN @ - 1 ELSE @,
              !.old = IF s.executor # 0 THEN @ + Busy(s, us) ELSE @,
              !.orphans = 0, !.prev = {},
              !.idle_stop = @ \/ s.task = 0]

\* stop(), awaited by its caller: _running = False, the loop task is
\* cancelled and awaited (every unit of the cycle is cancelled with it),
\* executor.shutdown(wait=False, cancel_futures=True) drops the queued
\* work items and leaves the running calls to finish on their own. A unit
\* inside its save loop has no await and cannot be interrupted there.
Poll_Stop ==
    /\ \A m \in DOMAIN units : Interruptible(units[m])
    /\ sched' = stop(sched, units)
    /\ units' = IF sched.task # 0 THEN NoUnits ELSE units
    /\ UNCHANGED <<mailboxes, requests, emails, proc, sendCount, clock,
                   webhookOn, calls, cycles>>

\* a mailbox list that was read once, when only m1 existed
list_all_Cached(rows) == {"m1"}

\* MailboxAccountRepository.list_all: the mailboxes stored now
list_all(rows) == DOMAIN rows

\* _poll_all_mailboxes: list_all() and one unit per mailbox; a failure of
\* list_all or an empty list ends the cycle at once
Poll_CycleBegin ==
    /\ sched.running /\ sched.pc = "cycle"
    /\ cycles < MaxCycles
    /\ cycles' = cycles + 1
    /\ \/ /\ units' = [m \in list_all(mailboxes) |-> NewUnit]
          /\ sched' = IF list_all(mailboxes) = {}
                      THEN [sched EXCEPT !.pc = "sleep", !.prev = {}]
                      ELSE [sched EXCEPT !.pc = "gather"]
       \/ /\ units' = NoUnits
          /\ sched' = [sched EXCEPT !.pc = "sleep", !.prev = {}]
    /\ UNCHANGED <<mailboxes, requests, emails, proc, sendCount, clock,
                   webhookOn, calls>>

\* _poll_single_mailbox_with_timeout: async with self._semaphore, then
\* wait_for(_poll_single_mailbox), which hands fetch_new_emails to the
\* executor
Unit_Acquire(m) ==
    /\ sched.pc = "gather"
    /\ m \in DOMAIN units
    /\ units[m].pc = "waiting"
    /\ sched.free > 0
    /\ sched' = [sched EXCEPT !.free = @ - 1]
    /\ units' = [units EXCEPT ![m].pc = "fetching", ![m].job = "queued"]
    /\ UNCHANGED <<mailboxes, requests, emails, proc, sendCount, clock,
                   webhookOn, calls, cycles>>

\* a worker of the pool that is not inside a call takes the work item
Job_Start(m) ==
    /\ sched.pc = "gather"
    /\ m \in DOMAIN units
    /\ units[m].job = "queued"
    /\ Busy(sched, units) < sched.max
    /\ units' = [units EXCEPT ![m].job = "running", ![m].started = TRUE]
    /\ UNCHANGED <<mailboxes, requests, emails, proc, sendCount, clock,
                   webhookOn, calls, sched, cycles>>

\* _poll_single_mailbox: fetch_new_emails returns in the executor
Unit_Fetched(m, batch) ==
    /\ sched.pc = "gather"
    /\ m \in DOMAIN units
    /\ units[m].pc = "fetching"
    /\ units[m].job = "running"
    /\ IF batch = <<>>
       THEN /\ units' = [units EXCEPT ![m].pc = "done", ![m].job = "none"]
            /\ sched' = [sched EXCEPT !.free = @ + 1]
       ELSE /\ units' = [units EXCEPT ![m].pc = "check", ![m].batch = batch,
                                      ![m].job = "none"]
            /\ sched' = sched
    /\ UNCHANGED <<mailboxes, requests, emails, proc, sendCount, clock,
                   webhookOn, calls, cycles>>

\* fetch_new_emails raises, or wait_for gives up after the timeout: the
\* unit ends with the exception and leaves the semaphore. A timeout
\* cancels a work item that no worker has taken (which happens only while
\* every worker is inside a call); a call that is running cannot be
\* cancelled and keeps its worker until it returns.
Unit_FetchFailed(m, how) ==
    /\ sched.pc = "gather"
    /\ m \in DOMAIN units
    /\ units[m].pc = "fetching"
    /\ \/ units[m].job = "running"
       \/ how = "timeout" /\ Busy(sched, units) >= sched.max
    /\ units' = [units EXCEPT ![m].pc = how, ![m].job = "none"]
    /\ sched' = [sched EXCEPT !.free = @ + 1,
                              !.orphans =
                                  IF how = "timeout"
                                     /\ units[m].job = "running"
                                  THEN @ + 1 ELSE @]
    /\ UNCHANGED <<mailboxes, requests, emails, proc, sendCount, clock,
                   webhookOn, calls, cycles>>

\* a fetch_new_emails call whose unit timed out returns at last
Orphan_Return ==
    /\ sched.orphans > 0
    /\ sched' = [sched EXCEPT !.orphans = @ - 1]
    /\ UNCHANGED <<mailboxes, requests, emails, proc, sendCount, clock,
                   webhookOn, calls, units, cycles>>

\* a late return whose messages are saved by the worker thread
Old_Return_Saves ==
    /\ sched.old > 0
    /\ sched' = [sched EXCEPT !.old = @ - 1, !.late = @ \/ ~sched.running]
    /\ emails' = EmailAdd(emails,
                          convert_to_email(emails, "m1", "<1@ai>", cycles))
    /\ UNCHANGED <<mailboxes, requests, proc, sendCount, clock,
                   webhookOn, calls, units, cycles>>

\* a fetch_new_emails call in a worker of a shut-down executor returns:
\* the unit that awaited it was cancelled by stop(), so its save loop is
\* never run and the messages are dropped
Old_Return ==
    /\ sched.old > 0
    /\ sched' = [sched EXCEPT !.old = @ - 1, !.late = @ \/ ~sched.running]
    /\ UNCHANGED <<mailboxes, requests, emails, proc, sendCount, clock,
                   webhookOn, calls, units, cycles>>

\* AddMailboxAccountHandler stores a new mailbox while the service runs
Mailbox_Add(m) ==
    /\ m \notin DOMAIN mailboxes
    /\ mailboxes' = [k \in DOMAIN mailboxes \cup {m} |->
                       IF k = m THEN NewMailbox(m) ELSE mailboxes[k]]
    /\ UNCHANGED <<requests, emails, proc, sendCount, clock, webhookOn,
                   calls, sched, units, cycles>>

\* the unit moves on to its next message, or returns saved_count
NextMessage(u) ==
    IF u.i >= Len(u.batch)
    THEN [u EXCEPT !.pc = "done"]
    ELSE [u EXCEPT !.pc = "check", !.i = @ + 1]

\* a query on the unit's Session raises once a commit on it has failed
SessionRaises(u) == u.failed

\* the duplicate check of one message; an exception is logged and the loop
\* goes on with the next message. The emails table is shared with
\* every other process that polls, so a row can be added by another unit
\* between this check and the add that follows it
Unit_Exists(m) ==
    /\ sched.pc = "gather"
    /\ m \in DOMAIN units
    /\ units[m].pc = "check"
    /\ LET u    == units[m]
           next == IF SessionRaises(u)
                   THEN NextMessage(u)
                   ELSE IF exists_by_message_id(emails, u.batch[u.i])
                   THEN NextMessage(u)
                   ELSE [u EXCEPT !.pc = "add"]
       IN  /\ units' = [units EXCEPT ![m] = next]
           /\ sched' = IF next.pc = "done"
                       THEN [sched EXCEPT !.free = @ + 1] ELSE sched
    /\ UNCHANGED <<mailboxes, requests, emails, proc, sendCount, clock,
                   webhookOn, calls, cycles>>

\* convert and email_repository.add; an exception is logged and the loop
\* goes on
Unit_Add(m) ==
    /\ sched.pc = "gather"
    /\ m \in DOMAIN units
    /\ units[m].pc = "add"
    /\ LET u     == units[m]
           email == convert_to_email(emails, m, u.batch[u.i], cycles)
           next  == IF AddRaises(emails, email)
                    THEN NextMessage([u EXCEPT !.failed = TRUE])
                    ELSE NextMessage([u EXCEPT !.saved = @ + 1])
       IN  /\ emails' = EmailAdd(emails, email)
           /\ units' = [units EXCEPT ![m] = next]
           /\ sched' = IF next.pc = "done"
                       THEN [sched EXCEPT !.free = @ + 1] ELSE sched
    /\ UNCHANGED <<mailboxes, requests, proc, sendCount, clock,
                   webhookOn, calls, cycles>>

\* asyncio.gather returns once every unit has returned or raised
Poll_CycleEnd ==
    /\ sched.pc = "gather"
    /\ \A m \in DOMAIN units : UnitDone(units[m])
    /\ sched' = [sched EXCEPT !.pc = "sleep", !.prev = DOMAIN units]
    /\ units' = NoUnits
    /\ UNCHANGED <<mailboxes, requests, emails, proc, sendCount, clock,
                   webhookOn, calls, cycles>>

\* _polling_loop: asyncio.sleep(interval), then the next cycle
Poll_Sleep ==
    /\ sched.running /\ sched.pc = "sleep"
    /\ sched' = [sched EXCEPT !.pc = "cycle"]
    /\ UNCHANGED <<mailboxes, requests, emails, proc, sendCount, clock,
                   webhookOn, calls, units, cycles>>

----------------------------------------------------------------------------
Init ==
    /\ mailboxes = [m \in Mailboxes |-> NewMailbox(m)]
    /\ requests = <<>>
    /\ emails \in InitialEmailStores
    /\ proc = [p \in Workers |-> IdleProc]
    /\ sendCount = <<>>
    /\ clock = 1
    /\ webhookOn \in BOOLEAN
    /\ calls = 0
    /\ sched = Stopped
    /\ units = NoUnits
    /\ cycles = 0

Next ==
    \/ \E p \in Workers, a \in Addresses, s \in Services : RW_Get(p, a, s)
    \/ \E p \in Workers : RW_Update(p)
    \/ \E p \in Workers : RW_Add(p)
    \/ \E p \in Workers, rid \in 1..(Len(requests) + 1) : CW_Get(p, rid)
    \/ \E p \in Workers : CW_Update(p)
    \/ \E p \in Workers : CW_ReleaseGet(p)
    \/ \E p \in Workers : CW_ReleaseUpdate(p)
    \/ \E p \in Workers, eid \in EmailIds : PE_Load(p, eid)
    \/ \E p \in Workers : PE_GetMailbox(p)
    \/ \E p \in Workers : PE_FindSingle(p)
    \/ \E p \in Workers : PE_FindAll(p)
    \/ \E p \in Workers : PE_Extract(p)
    \/ \E p \in Workers : PE_UpdateRequest(p)
    \/ \E p \in Workers : Notify_Send(p)
    \/ \E p \in Workers : Notify_ReleaseGet(p)
    \/ \E p \in Workers : Notify_ReleaseUpdate(p)

Spec == Init /\ [][Next]_vars

----------------------------------------------------------------------------
(* The polling service alone, on an empty emails table *)

InitPoll ==
    /\ mailboxes = [m \in PollMailboxes |-> NewMailbox(m)]
    /\ requests = <<>>
    /\ emails = <<>>
    /\ proc = [p \in Workers |-> IdleProc]
    /\ sendCount = <<>>
    /\ clock = 1
    /\ webhookOn = FALSE
    /\ calls = 0
    /\ sched = Stopped
    /\ units = NoUnits
    /\ cycles = 0

NextPoll ==
    \/ Poll_Start
    \/ Poll_CycleBegin
    \/ \E m \in PollMailboxes : Unit_Acquire(m)
    \/ \E m \in PollMailboxes : Job_Start(m)
    \/ \E m \in PollMailboxes, b \in Batches : Unit_Fetched(m, b)
    \/ \E m \in PollMailboxes, how \in {"error", "timeout"} :
          Unit_FetchFailed(m, how)
    \/ \E m \in PollMailboxes : Unit_Exists(m)
    \/ \E m \in PollMailboxes : Unit_Add(m)
    \/ Orphan_Return
    \/ Poll_CycleEnd
    \/ Poll_Sleep

SpecPoll == InitPoll /\ [][NextPoll]_vars

----------------------------------------------------------------------------
(* The scheduling of the polling service: started and stopped by its       *)
(* owner, with max_concurrent_connections 1 or more, a mailbox that is      *)
(* added while it runs, and fetches of at most one message.                 *)

SchedBatches == { b \in Batches : Len(b) <= 1 }

InitSched ==
    /\ mailboxes = [m \in {"m1"} |-> NewMailbox(m)]
    /\ requests = <<>>
    /\ emails = <<>>
    /\ proc = [p \in Workers |-> IdleProc]
    /\ sendCount = <<>>
    /\ clock = 1
    /\ webhookOn = FALSE
    /\ calls = 0
    /\ sched \in { [Stopped EXCEPT !.max = k] : k \in 1..max_concurrent }
    /\ units = NoUnits
    /\ cycles = 0

NextSched ==
    \/ Poll_Start
    \/ Poll_Stop
    \/ Poll_CycleBegin
    \/ \E m \in PollMailboxes : Unit_Acquire(m)
    \/ \E m \in PollMailboxes : Job_Start(m)
    \/ \E m \in PollMailboxes, b \in SchedBatches : Unit_Fetched(m, b)
    \/ \E m \in PollMailboxes, how \in {"error", "timeout"} :
          Unit_FetchFailed(m, how)
    \/ \E m \in PollMailboxes : Unit_Exists(m)
    \/ \E m \in PollMailboxes : Unit_Add(m)
    \/ Orphan_Return
    \/ Old_Return
    \/ \E m \in PollMailboxes : Mailbox_Add(m)
    \/ Poll_CycleEnd
    \/ Poll_Sleep

SpecSched == InitSched /\ [][NextSched]_vars

----------------------------------------------------------------------------
(* The matching engine alone: one worker processes the stored emails, one  *)
(* after the other, against a wait_requests table that holds from one to    *)
(* MaxPending Pending requests on the address (more than one is what two    *)
(* overlapping registrations leave behind). Row ids say nothing about age.  *)

Perms(n) == {f \in [1..n -> 1..n] : \A i, j \in 1..n : f[i] = f[j] => i = j}

PendingStores ==
    UNION { { [i \in 1..n |->
                 create(i, "m1", Username("m1"), svc[i], age[i])] :
              svc \in [1..n -> Services], age \in Perms(n) } :
            n \in 1..MaxPending }

InitMatch ==
    /\ requests \in PendingStores
    /\ mailboxes = [m \in Mailboxes |->
                      occupy(NewMailbox(m), requests[1].service_name)]
    /\ emails \in InitialEmailStores
    /\ proc = [p \in Workers |-> IdleProc]
    /\ sendCount = [i \in DOMAIN requests |-> 0]
    /\ clock = Len(requests) + 1
    /\ webhookOn \in BOOLEAN
    /\ calls = 0
    /\ sched = Stopped
    /\ units = NoUnits
    /\ cycles = 0

NextMatch ==
    \/ \E eid \in EmailIds : PE_Load("w1", eid)
    \/ PE_GetMailbox("w1")
    \/ PE_FindSingle("w1")
    \/ PE_FindAll("w1")
    \/ PE_Extract("w1")
    \/ PE_UpdateRequest("w1")
    \/ Notify_Send("w1")
    \/ Notify_ReleaseGet("w1")
    \/ Notify_ReleaseUpdate("w1")

SpecMatch == InitMatch /\ [][NextMatch]_vars

----------------------------------------------------------------------------
(* The handlers called one after the other (one worker), on a store that   *)
(* holds no request or one request in any status; the lease bookkeeping may *)
(* be out of step with it: the mailbox of the request deleted, or Available *)
(* under a Pending request, or Occupied under a terminal one.               *)

FirstRequest == create(1, "m1", Username("m1"), "ai", 1)

SeqRequestStores ==
    { <<>>,
      <<FirstRequest>>,
      <<complete(FirstRequest, "123456", 1)>>,
      <<cancel(FirstRequest)>>,
      <<fail(FirstRequest, FailureReason("HTTP 500"))>>,
      <<create(1, GoneMailbox, "gone@x.com", "ai", 1)>> }

InitSeq ==
    /\ requests \in SeqRequestStores
    /\ mailboxes \in { [m \in Mailboxes |-> NewMailbox(m)],
                       [m \in Mailboxes |-> occupy(NewMailbox(m), "ai")] }
    /\ emails \in InitialEmailStores
    /\ proc = [p \in Workers |-> IdleProc]
    /\ sendCount = [i \in DOMAIN requests |-> 0]
    /\ clock = 2
    /\ webhookOn \in BOOLEAN
    /\ calls = 0
    /\ sched = Stopped
    /\ units = NoUnits
    /\ cycles = 0

NextSeq ==
    \/ \E a \in Addresses, sv \in Services : RW_Get("w1", a, sv)
    \/ RW_Update("w1")
    \/ RW_Add("w1")
    \/ \E rid \in 1..(Len(requests) + 1) : CW_Get("w1", rid)
    \/ CW_Update("w1")
    \/ CW_ReleaseGet("w1")
    \/ CW_ReleaseUpdate("w1")
    \/ \E eid \in EmailIds : PE_Load("w1", eid)
    \/ PE_GetMailbox("w1")
    \/ PE_FindSingle("w1")
    \/ PE_FindAll("w1")
    \/ PE_Extract("w1")
    \/ PE_UpdateRequest("w1")
    \/ Notify_Send("w1")
    \/ Notify_ReleaseGet("w1")
    \/ Notify_ReleaseUpdate("w1")

SpecSeq == InitSeq /\ [][NextSeq]_vars

----------------------------------------------------------------------------
(* The entities alone: complete, cancel and fail called in any order on    *)
(* one WaitRequest that worker w1 holds, occupy and release called in any   *)
(* order on one MailboxAccount that worker w2 holds.                        *)

NewRequests ==
    { create(id, "m1", Username("m1"), sv, now) :
        id \in 1..2, sv \in Services, now \in 1..2 }

Called(method, entity, raised) ==
    [proc EXCEPT !["w1"].op = method, !["w1"].req = entity,
                 !["w1"].result =
                     IF raised THEN "InvalidStateTransitionException"
                     ELSE "returned"]

WR_Complete(extraction_result) ==
    /\ proc' = Called("complete",
                      complete(proc["w1"].req, extraction_result, clock),
                      InvalidTransition(proc["w1"].req))
    /\ UNCHANGED <<mailboxes, requests, emails, sendCount, clock, webhookOn,
                   calls, sched, units, cycles>>

WR_Cancel ==
    /\ proc' = Called("cancel", cancel(proc["w1"].req),
                      InvalidTransition(proc["w1"].req))
    /\ UNCHANGED <<mailboxes, requests, emails, sendCount, clock, webhookOn,
                   calls, sched, units, cycles>>

WR_Fail(reason) ==
    /\ proc' = Called("fail", fail(proc["w1"].req, reason),
                      InvalidTransition(proc["w1"].req))
    /\ UNCHANGED <<mailboxes, requests, emails, sendCount, clock, webhookOn,
                   calls, sched, units, cycles>>

MB_Called(method, entity, raised) ==
    [proc EXCEPT !["w2"].op = method, !["w2"].mbx = entity,
                 !["w2"].result =
                     IF raised THEN "InvalidStateTransitionException"
                     ELSE "returned"]

MB_Occupy(service_name) ==
    /\ proc' = MB_Called("occupy", occupy(proc["w2"].mbx, service_name),
                         AlreadyOccupied(proc["w2"].mbx))
    /\ UNCHANGED <<mailboxes, requests, emails, sendCount, clock, webhookOn,
                   calls, sched, units, cycles>>

MB_Release ==
    /\ proc' = MB_Called("release", release(proc["w2"].mbx),
                         NotOccupied(proc["w2"].mbx))
    /\ UNCHANGED <<mailboxes, requests, emails, sendCount, clock, webhookOn,
                   calls, sched, units, cycles>>

InitEntity ==
    /\ \E e \in NewRequests :
          proc = [p \in Workers |->
                    IF p = "w1" THEN [IdleProc EXCEPT !.req = e]
                    ELSE [IdleProc EXCEPT !.mbx = NewMailbox("m1")]]
    /\ mailboxes = [m \in Mailboxes |-> NewMailbox(m)]
    /\ requests = <<>>
    /\ emails = <<>>
    /\ sendCount = <<>>
    /\ clock = 3
    /\ webhookOn = FALSE
    /\ calls = 0
    /\ sched = Stopped
    /\ units = NoUnits
    /\ cycles = 0

NextEntity ==
    \/ \E v \in {"123456", "https://x.io/v"} : WR_Complete(v)
    \/ WR_Cancel
    \/ \E reason \in {None, FailureReason("HTTP 500")} : WR_Fail(reason)
    \/ \E service_name \in Services : MB_Occupy(service_name)
    \/ MB_Release

SpecEntity == InitEntity /\ [][NextEntity]_vars

----------------------------------------------------------------------------
(* WebhookNotificationService.notify alone: worker w1 calls it with the    *)
(* stored request, whatever the status of that request.                     *)

NotifyRequestStores ==
    { <<FirstRequest>>,
      <<complete(FirstRequest, "123456", 1)>>,
      <<cancel(FirstRequest)>>,
      <<fail(FirstRequest, FailureReason("HTTP 500"))>> }

InitNotify ==
    /\ requests \in NotifyRequestStores
    /\ mailboxes \in { [m \in Mailboxes |-> NewMailbox(m)],
                       [m \in Mailboxes |-> occupy(NewMailbox(m), "ai")] }
    /\ emails \in InitialEmailStores
    /\ \E x \in { e \in ExtractionResults : is_successful(e) } :
          proc = [p \in Workers |->
                    IF p = "w1"
                    THEN [IdleProc EXCEPT !.op = "process",
                                          !.pc = "notify_send",
                                          !.req = requests[1],
                                          !.ext = x,
                                          !.email = emails[1]]
                    ELSE IdleProc]
    /\ sendCount = [i \in DOMAIN requests |-> 0]
    /\ clock = 2
    /\ webhookOn = TRUE
    /\ calls = 0
    /\ sched = Stopped
    /\ units = NoUnits
    /\ cycles = 0

NextNotify ==
    \/ Notify_Send("w1")
    \/ Notify_ReleaseGet("w1")
    \/ Notify_ReleaseUpdate("w1")

SpecNotify == InitNotify /\ [][NextNotify]_vars

----------------------------------------------------------------------------
(* WebhookClient.send alone, against every behaviour of the endpoint: arg  *)
(* of worker w1 holds the answers the endpoint gives to successive posts.   *)

WC_Send ==
    /\ proc["w1"].op = None
    /\ proc' = [proc EXCEPT !["w1"].op = "send",
                            !["w1"].wres = send(proc["w1"].arg)]
    /\ UNCHANGED <<mailboxes, requests, emails, sendCount, clock, webhookOn,
                   calls, sched, units, cycles>>

InitSend ==
    /\ \E script \in AllScripts :
          proc = [p \in Workers |->
                    IF p = "w1" THEN [IdleProc EXCEPT !.arg = script]
                    ELSE IdleProc]
    /\ mailboxes = [m \in Mailboxes |-> NewMailbox(m)]
    /\ requests = <<>>
    /\ emails = <<>>
    /\ sendCount = <<>>
    /\ clock = 1
    /\ webhookOn = TRUE
    /\ calls = 0
    /\ sched = Stopped
    /\ units = NoUnits
    /\ cycles = 0

NextSend == WC_Send

SpecSend == InitSend /\ [][NextSend]_vars

----------------------------------------------------------------------------
(* The handlers in two workers, on a store that holds one Pending request  *)
(* and its lease.                                                           *)

InitLease ==
    /\ requests = <<FirstRequest>>
    /\ mailboxes = [m \in Mailboxes |-> occupy(NewMailbox(m), "ai")]
    /\ emails \in InitialEmailStores
    /\ proc = [p \in Workers |-> IdleProc]
    /\ sendCount = <<0>>
    /\ clock = 2
    /\ webhookOn \in BOOLEAN
    /\ calls = 0
    /\ sched = Stopped
    /\ units = NoUnits
    /\ cycles = 0

SpecLease == InitLease /\ [][Next]_vars

----------------------------------------------------------------------------
(* RegisterWait calls one after the other, on a database whose commit of   *)
(* the new WaitRequest can fail.                                            *)

NextRegister ==
    \/ \E a \in Addresses, s \in Services : RW_Get("w1", a, s)
    \/ RW_Update("w1")
    \/ RW_Add("w1")
    \/ RW_AddRaises("w1")

SpecRegister == Init /\ [][NextRegister]_vars

----------------------------------------------------------------------------
(* Sweeps of the unprocessed emails by one worker, again and again, while  *)
(* consumers register on the other worker. The emails were received before *)
(* the run; one of them may belong to a mailbox that was deleted, which no  *)
(* request will ever match.                                                 *)

SweepEmailStores ==
    InitialEmailStores
      \cup { <<StoredEmail(EmailTemplate(4), 1),
               StoredEmail(EmailTemplate(1), 2)>> }

InitSweep ==
    /\ mailboxes = [m \in Mailboxes |-> NewMailbox(m)]
    /\ requests = <<>>
    /\ emails \in SweepEmailStores
    /\ proc = [p \in Workers |-> IdleProc]
    /\ sendCount = <<>>
    /\ clock = Len(emails) + 1
    /\ webhookOn \in BOOLEAN
    /\ calls = 0
    /\ sched = Stopped
    /\ units = NoUnits
    /\ cycles = 0

Sweeper ==
    \/ \E limit \in SweepLimits : SW_Load("w2", limit)
    \/ SW_Next("w2")
    \/ PE_GetMailbox("w2")
    \/ PE_FindSingle("w2")
    \/ PE_FindAll("w2")
    \/ PE_Extract("w2")
    \/ PE_UpdateRequest("w2")
    \/ Notify_Send("w2")
    \/ Notify_ReleaseGet("w2")
    \/ Notify_ReleaseUpdate("w2")

NextSweep ==
    \/ \E s \in Services : RW_Get("w1", Username("m1"), s)
    \/ RW_Update("w1")
    \/ RW_Add("w1")
    \/ Sweeper

SpecSweep == InitSweep /\ [][NextSweep]_vars

\* sweeps are repeated for ever: the sweeping worker always takes its
\* next step and, when it has returned, starts the next sweep
SpecSweepFair == SpecSweep /\ WF_vars(Sweeper)

----------------------------------------------------------------------------
(* Properties *)

PendingOn(m) ==
    {i \in DOMAIN requests :
        requests[i].mailbox_id = m /\ requests[i].status = PENDING}

AllAtRest == \A p \in Workers : AtRest(p)

\* C1: every mailbox has at most one WaitRequest in state Pending that
\* references it.
C1_AtMostOnePendingPerMailbox ==
    \A m \in Mailboxes : Cardinality(PendingOn(m)) <= 1

\* the code past the occupancy check of RegisterWait: the call goes on to
\* write the lease, add a Pending request and return success
RegisterPastCheck(p) == proc[p].pc \in {"rw_update", "rw_add"}

\* C2: of two RegisterWait calls in flight on the same address at most one
\* gets past the occupancy check (and so succeeds and creates a Pending
\* request); the other one reports the mailbox as occupied.
C2_AtMostOneRegisterSucceeds ==
    \A p, q \in Workers :
        (p # q /\ RegisterPastCheck(p) /\ RegisterPastCheck(q))
            => proc[p].addr # proc[q].addr

\* C3: in the store, a WaitRequest that is Completed, Cancelled or Failed
\* never changes its status again.
C3_TerminalIsFinal ==
    [][\A i \in DOMAIN requests :
          is_terminal(requests[i]) =>
              requests'[i].status = requests[i].status]_vars

\* C4: for every WaitRequest the webhook client's send is invoked at most
\* once over the whole run.
C4_SendAtMostOnce ==
    \A i \in DOMAIN sendCount : sendCount[i] <= 1

\* the delivery of worker p has failed on every attempt
DeliveryFailed(p) ==
    /\ proc[p].pc \in {"notify_release", "notify_release_update"}
    /\ proc[p].wres.called
    /\ ~proc[p].wres.success

\* C5: once the webhook endpoint has failed on all 4 attempts of a delivery,
\* the stored WaitRequest is Failed with the underlying error in
\* failureReason, and when notify returns the mailbox lease is released.
C5_FailedDeliveryFailsRequest ==
    [][\A p \in Workers :
          DeliveryFailed(p) =>
              LET i == proc[p].req.id
              IN  /\ requests[i].status = FAILED
                  /\ requests[i].failure_reason =
                         FailureReason(proc[p].wres.error_message)
                  /\ (proc'[p].pc = "idle" =>
                         mailboxes'[proc[p].req.mailbox_id].status
                             = AVAILABLE)]_vars

\* C6: a mailbox whose WaitRequest has left Pending becomes Available
\* again: when no handler is in flight any more, every Occupied mailbox
\* still has a Pending WaitRequest that references it.
C6_LeaseReleasedOnceRequestLeftPending ==
    AllAtRest =>
        \A m \in Mailboxes :
            mailboxes[m].status = OCCUPIED => PendingOn(m) # {}

ServiceIffOccupied(mb) ==
    (mb.occupied_by_service # None) <=> (mb.status = OCCUPIED)

\* C7: in every reachable state of every mailbox (the stored row and every
\* copy a handler holds) occupiedByService is non-null if and only if the
\* status is Occupied.
C7_ServiceIffOccupied ==
    /\ \A m \in Mailboxes : ServiceIffOccupied(mailboxes[m])
    /\ \A p \in Workers : ServiceIffOccupied(proc[p].mbx)

\* a lease taken by RegisterWait has been written and then released again
C7_Witness ==
    /\ \E m \in Mailboxes : mailboxes[m].status = AVAILABLE
    /\ \E i \in DOMAIN requests : requests[i].status # PENDING
    /\ \E p \in Workers : proc[p].mbx.status = OCCUPIED

\* C8: a WaitRequest whose status is Completed has a non-null
\* extractionValue and a non-null completedAt.
C8_CompletedHasValue ==
    \A i \in DOMAIN requests :
        requests[i].status = COMPLETED =>
            /\ requests[i].extraction_result # None
            /\ requests[i].completed_at # 0

MailboxWritePcs == {"rw_update", "cw_release_update", "notify_release_update"}

RequestWritePcs == {"cw_update", "pe_update_request"}

\* C9: an update of a mailbox lease or a wait request written from a copy
\* that was loaded before another writer committed a change to the same row
\* is rejected: it leaves the row as it is.
C9_StaleWriteRejected ==
    [][\A p \in Workers :
          /\ (proc[p].pc \in MailboxWritePcs /\ proc[p].mbxStale)
                => mailboxes' = mailboxes
          /\ (proc[p].pc \in RequestWritePcs /\ proc[p].reqStale)
                => requests' = requests]_vars

\* C10: the emails table holds at most one row per messageId.
C10_OneRowPerMessageId ==
    \A j, k \in DOMAIN emails :
        emails[j].message_id = emails[k].message_id => j = k

\* a unit has met, at its add, a Message-ID that another unit stored after
\* this unit's duplicate check, and went on
C10_Witness ==
    /\ cycles = MaxCycles
    /\ Len(emails) = Cardinality(MessageIds)
    /\ \E m \in DOMAIN units :
          /\ units[m].pc = "done"
          /\ units[m].saved < Len(units[m].batch)


\* the request process_email has resolved for the email it holds
Resolved(p) == proc[p].pc = "pe_extract"

\* C11: the request resolved for an email is a Pending request on the
\* email's address: the only one if there is exactly one; with several, one
\* whose lower-cased serviceName occurs in the lower-cased fromAddress or
\* subject if there is such a request, and otherwise the one with the
\* earliest createdAt.
C11_ResolvedIsReference ==
    \A p \in Workers :
        Resolved(p) =>
            LET pend == PendingIds(proc[p].mbx.username)
                r    == proc[p].req
                e    == proc[p].email
            IN  /\ r.id \in pend
                /\ r = requests[r.id]
                /\ Cardinality(pend) > 1 =>
                      IF \E i \in pend : ServiceMatches(requests[i], e)
                      THEN ServiceMatches(r, e)
                      ELSE \A i \in pend :
                              r.created_at <= requests[i].created_at

\* several requests are Pending and the one resolved is, by its service
\* name "ai" found in the sender "x@AI", a request that is not the oldest
C11_Witness ==
    /\ Resolved("w1")
    /\ Cardinality(PendingIds(proc["w1"].mbx.username)) > 1
    /\ proc["w1"].req.service_name = "ai"
    /\ proc["w1"].email.from_address = "x@AI"
    /\ \E i \in PendingIds(proc["w1"].mbx.username) :
          requests[i].created_at < proc["w1"].req.created_at


\* process_email of worker p returns "matched, nothing extracted"
ReturnsNotExtracted(p) ==
    /\ proc[p].pc = "pe_extract"
    /\ proc'[p].pc = "idle"
    /\ proc'[p].result = "matched_not_extracted"

\* C12: when ProcessEmail has resolved a request and the extraction yields
\* neither a code nor a link (an email with an empty body included), the
\* call leaves the wait requests as they are, sends no webhook, and the
\* email is persisted as processed.
C12_NothingExtractedMarksEmail ==
    [][\A p \in Workers :
          ReturnsNotExtracted(p) =>
              /\ requests' = requests
              /\ sendCount' = sendCount
              /\ emails'[proc[p].email.id].is_processed]_vars


\* process_email of worker p returns "matched and extracted"
ReturnsMatched(p) ==
    /\ proc[p].pc \in {"pe_update_request", "notify_release",
                       "notify_release_update"}
    /\ proc'[p].pc = "idle"
    /\ proc'[p].result = "matched"

\* the code or link an extraction result carries, by its type
Extracted(x) == IF x.type = CODE THEN x.code ELSE x.link

\* C13: when ProcessEmail has resolved a Pending request and the extraction
\* returned a code or a link, then on return the request is Completed with
\* that value and the email is persisted as processed; the webhook payload
\* built for the request carries the type and value of the extraction, the
\* request's address and service and the email's receivedAt.
C13_MatchedCompletesAndNotifies ==
    [][\A p \in Workers :
          (ReturnsMatched(p) /\ Truthy(Extracted(proc[p].ext))) =>
              LET r == requests'[proc[p].req.id]
                  e == emails'[proc[p].email.id]
                  x == proc[p].ext
              IN  /\ r.status = COMPLETED
                  /\ r.extraction_result = Extracted(x)
                  /\ e.is_processed
                  /\ webhookOn =>
                        proc[p].payload =
                            [request_id |-> r.id, type |-> x.type,
                             value |-> Extracted(x), email |-> r.email,
                             service |-> r.service_name,
                             received_at |-> e.received_at]]_vars

\* a delivery for a link taken from the second email has gone out and the
\* call is about to return
C13_Witness ==
    /\ proc["w1"].pc = "notify_release_update"
    /\ proc["w1"].wres.success
    /\ proc["w1"].ext.type = LINK
    /\ proc["w1"].payload.value = "https://x.io/v"
    /\ proc["w1"].payload.received_at = 2
    /\ requests[proc["w1"].req.id].status = COMPLETED


\* worker p takes the step of process_email that looks for the mailbox of
\* the email, or for a Pending request on its address, and there is none
StepFindsNothing(p) ==
    /\ proc'[p].pc # proc[p].pc
    /\ \/ /\ proc[p].pc = "pe_mailbox"
          /\ proc[p].email.mailbox_id \notin DOMAIN mailboxes
       \/ /\ proc[p].pc = "pe_find"
          /\ \A i \in DOMAIN requests :
                requests[i].email = proc[p].mbx.username
                    => requests[i].status # PENDING

\* C14: when the mailbox of the email does not exist, or its address has no
\* Pending request, ProcessEmail returns "unmatched" at that step, without
\* raising and without going on to the extractor or the webhook, and the
\* call changes no email, wait request or mailbox.
C14_UnmatchedChangesNothing ==
    [][\A p \in Workers :
          /\ StepFindsNothing(p) =>
                /\ proc'[p].pc = "idle"
                /\ proc'[p].result = "unmatched"
          /\ (proc'[p].pc # proc[p].pc
                /\ proc'[p].pc \in {"pe_mailbox", "pe_find", "pe_find_all"})
                => UNCHANGED <<mailboxes, requests, emails, sendCount>>
          /\ (proc'[p].pc # proc[p].pc /\ proc'[p].result = "unmatched")
                => UNCHANGED <<mailboxes, requests, emails, sendCount>>]_vars

\* ProcessEmail has returned "unmatched" for an email of mailbox m1, whose
\* only request was cancelled before; both emails are still unprocessed
C14_Witness ==
    /\ proc["w1"].op = "process"
    /\ proc["w1"].result = "unmatched"
    /\ \A k \in DOMAIN emails :
          emails[k].mailbox_id = "m1" /\ ~emails[k].is_processed
    /\ Len(requests) = 1
    /\ requests[1].status = CANCELLED
    /\ mailboxes["m1"].status = AVAILABLE


\* C15: CancelWait on a request that is Completed, Cancelled or Failed
\* returns ALREADY_TERMINAL with the current status and leaves the wait
\* requests and the mailboxes as they are; CancelWait on an unknown id
\* returns NOT_FOUND and changes nothing.
C15_CancelRejected ==
    [][\A p \in Workers, rid \in 1..(Len(requests) + 1) :
          CW_Get(p, rid) =>
              /\ rid \notin DOMAIN requests =>
                    /\ proc'[p].pc = "idle"
                    /\ proc'[p].result = "NOT_FOUND"
                    /\ UNCHANGED <<mailboxes, requests, emails, sendCount>>
              /\ (rid \in DOMAIN requests /\ is_terminal(requests[rid])) =>
                    /\ proc'[p].pc = "idle"
                    /\ proc'[p].result = "ALREADY_TERMINAL"
                    /\ proc'[p].current_status = requests[rid].status
                    /\ UNCHANGED <<mailboxes, requests, emails, sendCount>>]_vars

\* CancelWait has been refused on a request completed with a code
C15_Witness ==
    /\ proc["w1"].op = "cancel"
    /\ proc["w1"].result = "ALREADY_TERMINAL"
    /\ proc["w1"].current_status = COMPLETED
    /\ Len(requests) = 1
    /\ requests[1].status = COMPLETED
    /\ requests[1].extraction_result = "123456"


\* CancelWait of worker p returns success
CancelReturnsOK(p) ==
    /\ proc[p].pc \in {"cw_release", "cw_release_update"}
    /\ proc'[p].pc = "idle"
    /\ proc'[p].result = "OK"

\* the last call was a successful CancelWait of a request on address a
\* whose mailbox exists and whose release did not fail
JustCancelled(p, a) ==
    /\ proc[p].op = "cancel"
    /\ proc[p].result = "OK"
    /\ ~proc[p].warned
    /\ requests[proc[p].arg].email = a
    /\ requests[proc[p].arg].mailbox_id \in DOMAIN mailboxes

\* C16: a CancelWait on a Pending request that returns (the store not
\* failing) leaves the request Cancelled and its mailbox Available with no
\* occupying service, and a RegisterWait that follows on the same address,
\* for any service, gets past the occupancy check and succeeds.
C16_CancelFreesMailbox ==
    [][\A p \in Workers :
          /\ (CancelReturnsOK(p) /\ ~proc'[p].warned) =>
                LET r == requests'[proc'[p].arg]
                IN  /\ r.status = CANCELLED
                    /\ r.mailbox_id \in DOMAIN mailboxes =>
                          /\ mailboxes'[r.mailbox_id].status = AVAILABLE
                          /\ mailboxes'[r.mailbox_id].occupied_by_service
                                = None
          /\ \A a \in Addresses, sv \in Services :
                (RW_Get(p, a, sv) /\ JustCancelled(p, a)) =>
                    /\ proc'[p].pc = "rw_update"
                    /\ proc'[p].mbx.occupied_by_service = sv
          /\ (proc[p].pc = "rw_add" /\ proc'[p].pc = "idle") =>
                proc'[p].result = "OK"]_vars

\* a mailbox leased by "ai" was freed by CancelWait and is now being leased
\* by "B", the new request not yet added
C16_Witness ==
    /\ proc["w1"].pc = "rw_add"
    /\ proc["w1"].svc = "B"
    /\ mailboxes["m1"].occupied_by_service = "B"
    /\ Len(requests) = 1
    /\ requests[1].status = CANCELLED
    /\ requests[1].service_name = "ai"
    /\ calls = 2


\* C17: CancelWait on a Pending request goes through and reports success
\* with the request Cancelled in the store, also when the lease cannot be
\* released: the mailbox is missing, the mailbox is Available already (both
\* leave the mailboxes as they are), or writing the release raises.
C17_CancelSucceedsWithoutRelease ==
    [][\A p \in Workers :
          /\ \A rid \in DOMAIN requests :
                (CW_Get(p, rid) /\ requests[rid].status = PENDING) =>
                    proc'[p].pc = "cw_update"
          /\ (proc[p].pc = "cw_update" /\ proc'[p].pc # "cw_update") =>
                /\ proc'[p].pc = "cw_release"
                /\ requests'[proc[p].req.id].status = CANCELLED
          /\ (proc[p].pc = "cw_release" /\ proc'[p].pc # "cw_release") =>
                LET m == proc[p].req.mailbox_id
                IN  IF m \in DOMAIN mailboxes /\ mailboxes[m].status = OCCUPIED
                    THEN proc'[p].pc = "cw_release_update"
                    ELSE /\ CancelReturnsOK(p)
                         /\ requests'[proc'[p].arg].status = CANCELLED
                         /\ mailboxes' = mailboxes
          /\ (proc[p].pc = "cw_release_update"
                /\ proc'[p].pc # "cw_release_update") =>
                /\ CancelReturnsOK(p)
                /\ requests'[proc'[p].arg].status = CANCELLED]_vars

\* CancelWait has returned success although writing the release failed: the
\* request is Cancelled and the mailbox is still Occupied
C17_Witness ==
    /\ proc["w1"].op = "cancel"
    /\ proc["w1"].result = "OK"
    /\ proc["w1"].warned
    /\ requests[proc["w1"].arg].status = CANCELLED
    /\ mailboxes["m1"].status = OCCUPIED

\* C18: a RegisterWait on an address no mailbox has returns
\* MAILBOX_NOT_FOUND, one on an Occupied mailbox returns MAILBOX_OCCUPIED,
\* and neither changes anything: no WaitRequest is created and the mailbox
\* keeps its status and occupying service.
C18_FailedRegisterChangesNothing ==
    [][\A p \in Workers, a \in Addresses, sv \in Services :
          RW_Get(p, a, sv) =>
              /\ (\A m \in DOMAIN mailboxes : mailboxes[m].username # a) =>
                    /\ proc'[p].pc = "idle"
                    /\ proc'[p].result = "MAILBOX_NOT_FOUND"
                    /\ UNCHANGED <<mailboxes, requests, emails, sendCount>>
              /\ (\E m \in DOMAIN mailboxes :
                      /\ mailboxes[m].username = a
                      /\ mailboxes[m].status = OCCUPIED) =>
                    /\ proc'[p].pc = "idle"
                    /\ proc'[p].result = "MAILBOX_OCCUPIED"
                    /\ UNCHANGED <<mailboxes, requests, emails, sendCount>>]_vars

\* a RegisterWait for service "B" has been refused on the mailbox that "ai"
\* holds with its Pending request
C18_Witness ==
    /\ proc["w1"].op = "register"
    /\ proc["w1"].result = "MAILBOX_OCCUPIED"
    /\ mailboxes["m1"].status = OCCUPIED
    /\ mailboxes["m1"].occupied_by_service = "ai"
    /\ Len(requests) = 1
    /\ requests[1].status = PENDING
    /\ requests[1].service_name = "ai"

\* C19: a RegisterWait that succeeds on an Available mailbox leaves the
\* mailbox Occupied by the service given and has added exactly one
\* WaitRequest: Pending, for that service, with the id and the address of
\* that mailbox.
C19_RegisterCreatesPending ==
    [][\A p \in Workers :
          /\ (proc[p].pc = "rw_update" /\ proc'[p].pc # "rw_update") =>
                /\ proc'[p].pc = "rw_add"
                /\ requests' = requests
          /\ (proc[p].pc = "rw_add" /\ proc'[p].pc # "rw_add") =>
                LET m  == proc[p].mbx.id
                    wr == requests'[Len(requests')]
                IN  /\ proc'[p].pc = "idle"
                    /\ proc'[p].result = "OK"
                    /\ Len(requests') = Len(requests) + 1
                    /\ SubSeq(requests', 1, Len(requests)) = requests
                    /\ wr.status = PENDING
                    /\ wr.service_name = proc[p].svc
                    /\ wr.mailbox_id = m
                    /\ wr.email = mailboxes'[m].username
                    /\ mailboxes'[m].status = OCCUPIED
                    /\ mailboxes'[m].occupied_by_service = proc[p].svc]_vars

\* RegisterWait for "B" has succeeded on a mailbox that was Available
C19_Witness ==
    /\ proc["w1"].op = "register"
    /\ proc["w1"].result = "OK"
    /\ mailboxes["m1"].status = OCCUPIED
    /\ mailboxes["m1"].occupied_by_service = "B"
    /\ requests[Len(requests)].status = PENDING
    /\ requests[Len(requests)].service_name = "B"
    /\ requests[Len(requests)].mailbox_id = "m1"


\* C20: on a WaitRequest that is Completed, Cancelled or Failed each of
\* complete, cancel and fail raises the invalid-transition error and leaves
\* status, extraction result, completedAt and failureReason as they were.
C20_TerminalRejectsTransitions ==
    [][(is_terminal(proc["w1"].req) /\ proc'["w1"] # proc["w1"]) =>
          /\ proc'["w1"].op \in {"complete", "cancel", "fail"}
          /\ proc'["w1"].result = "InvalidStateTransitionException"
          /\ proc'["w1"].req.status = proc["w1"].req.status
          /\ proc'["w1"].req.extraction_result
                = proc["w1"].req.extraction_result
          /\ proc'["w1"].req.completed_at = proc["w1"].req.completed_at
          /\ proc'["w1"].req.failure_reason
                = proc["w1"].req.failure_reason]_vars

\* fail has been refused on a request completed with a code
C20_Witness ==
    /\ proc["w1"].op = "fail"
    /\ proc["w1"].result = "InvalidStateTransitionException"
    /\ proc["w1"].req.status = COMPLETED
    /\ proc["w1"].req.extraction_result = "123456"
    /\ proc["w1"].req.completed_at = 3
    /\ proc["w1"].req.failure_reason = None

\* C21: occupy on an Occupied mailbox and release on an Available mailbox
\* each raise and leave status and occupied_by_service as they were, so
\* the first occupier is kept.
C21_OccupyReleaseRejected ==
    [][/\ \A service_name \in Services :
            (MB_Occupy(service_name) /\ is_occupied(proc["w2"].mbx)) =>
               /\ proc'["w2"].result = "InvalidStateTransitionException"
               /\ proc'["w2"].mbx.status = OCCUPIED
               /\ proc'["w2"].mbx.occupied_by_service
                     = proc["w2"].mbx.occupied_by_service
       /\ (MB_Release /\ ~is_occupied(proc["w2"].mbx)) =>
               /\ proc'["w2"].result = "InvalidStateTransitionException"
               /\ proc'["w2"].mbx.status = AVAILABLE
               /\ proc'["w2"].mbx.occupied_by_service
                     = proc["w2"].mbx.occupied_by_service]_vars

\* occupy has been refused on a mailbox that service "ai" occupies
C21_Witness ==
    /\ proc["w2"].op = "occupy"
    /\ proc["w2"].result = "InvalidStateTransitionException"
    /\ proc["w2"].mbx.status = OCCUPIED
    /\ proc["w2"].mbx.occupied_by_service = "ai"

Succeeded(script, n) == { i \in 1..n : script[i] = "2xx" }

FailedAttempts(script, n) == { i \in 1..n : script[i] # "2xx" }

\* C23: send posts at most 4 times and never again after a 2xx answer; a
\* send that returns reports success exactly when one of its posts got a
\* 2xx; retry_count is the number of failed posts before the success, and
\* 3 when all 4 posts failed.
C23_SendRetries ==
    proc["w1"].op = "send" =>
      LET script == proc["w1"].arg
          r      == proc["w1"].wres
      IN  /\ r.attempts <= 4
          /\ \A i \in 1..(r.attempts - 1) : script[i] # "2xx"
          /\ ~r.raised =>
                /\ r.success <=> Succeeded(script, r.attempts) # {}
                /\ r.success =>
                      r.retry_count
                        = Cardinality(FailedAttempts(script, r.attempts))
                /\ ~r.success => r.attempts = 4 /\ r.retry_count = 3

\* 500 three times, then 200: success with retry_count 3
C23_Witness ==
    /\ proc["w1"].op = "send"
    /\ proc["w1"].arg = <<"5xx", "5xx", "5xx", "2xx">>
    /\ proc["w1"].wres.success
    /\ proc["w1"].wres.retry_count = 3
    /\ proc["w1"].wres.attempts = 4

\* the send of this step came back, after all its attempts, without success
SendFailed(p) ==
    /\ proc'[p].wres.called
    /\ ~proc'[p].wres.raised
    /\ ~proc'[p].wres.success

\* C24: when the delivery fails and the request is no longer Pending,
\* notify leaves the stored request as it was (status, extraction_result
\* and failure_reason); notify changes a stored request only by moving a
\* still-Pending one to Failed after a failed delivery.
C24_FailedDeliveryKeepsSettledRequest ==
    [][\A p \in Workers :
          Notify_Send(p) =>
            LET i == proc[p].req.id
            IN  /\ (SendFailed(p) /\ ~is_pending(requests[i])) =>
                       requests' = requests
                /\ (SendFailed(p) /\ is_pending(requests[i])) =>
                       requests'[i].status = FAILED
                /\ requests' # requests =>
                       /\ SendFailed(p)
                       /\ is_pending(requests[i])
                       /\ requests'[i].status = FAILED]_vars

\* the delivery for a Completed request has failed on every attempt and
\* the stored request still holds its value
C24_Witness ==
    /\ proc["w1"].pc = "notify_release"
    /\ proc["w1"].wres.called
    /\ ~proc["w1"].wres.success
    /\ proc["w1"].wres.attempts = 4
    /\ requests[1].status = COMPLETED
    /\ requests[1].extraction_result = "123456"
    /\ requests[1].failure_reason = None

\* fetch_new_emails calls in progress: those of the units, those whose unit
\* has timed out, and those left behind by a stop()
InProgress == sched.old + Busy(sched, units)

\* C25: at every moment at most max_concurrent fetch_new_emails calls are
\* in progress, the calls of timed-out units that still run in a worker
\* included.
C25_FetchesBounded == InProgress <= sched.max

\* C26: a unit that has taken a semaphore slot starts its fetch at once: a
\* worker is free for its work item, which is never held back by a unit
\* that has left the semaphore (a timed-out unit whose call still runs).
C26_SlotHolderFetches ==
    \A m \in DOMAIN units :
        units[m].job = "queued" => Busy(sched, units) < sched.max

\* the units whose fetch_new_emails call was running when wait_for gave up
Hung(us) == { m \in DOMAIN us : us[m].pc = "timeout" /\ us[m].started }

\* C27: when every unit of a cycle has ended, one of them because its
\* fetch hung past the timeout and none with an error, every other
\* mailbox was fetched and its unit returned its saved count, whatever
\* max_concurrent is.
C27_HungFetchIsolated ==
    (/\ sched.pc = "gather"
     /\ \A m \in DOMAIN units : UnitDone(units[m])
     /\ Cardinality(Hung(units)) = 1
     /\ \A m \in DOMAIN units : units[m].pc # "error")
    => \A m \in DOMAIN units \ Hung(units) :
          units[m].started /\ units[m].pc = "done"

\* the units whose fetch_new_emails call raised or hung past the timeout
FetchFailures(us) ==
    { m \in DOMAIN us : us[m].started /\ us[m].pc \in {"error", "timeout"} }

\* C28: a failure of list_all, or the failure or timeout of one mailbox's
\* fetch, does not end the loop: the service stays running, the cycle goes
\* on and every other mailbox of the cycle is fetched before it ends, and
\* the loop then sleeps for the next cycle.
C28_FailuresDoNotEndLoop ==
    [][/\ (\E m \in PollMailboxes, how \in {"error", "timeout"} :
              Unit_FetchFailed(m, how)) =>
            /\ sched'.running /\ sched'.loops = 1
            /\ sched'.pc = "gather"
       /\ (Poll_CycleBegin /\ units' = NoUnits) =>
            /\ sched'.running /\ sched'.loops = 1
            /\ sched'.pc = "sleep"
       /\ Poll_CycleEnd =>
            /\ sched'.running /\ sched'.loops = 1
            /\ sched'.pc = "sleep"
            /\ Cardinality(FetchFailures(units)) = 1 =>
                  \A m \in DOMAIN units : units[m].started]_vars

C30_StartIdempotent ==
    [][/\ (Poll_Start /\ sched.running) =>
            /\ sched'.task = sched.task
            /\ sched'.semaphore = sched.semaphore
            /\ sched'.executor = sched.executor
            /\ sched'.loops = sched.loops
            /\ sched'.running /\ sched'.pc = sched.pc
            /\ sched'.free = sched.free
            /\ units' = units /\ cycles' = cycles
       /\ sched'.loops <= 1
       /\ sched'.running => sched'.loops = 1 /\ sched'.task = sched'.starts]_vars

\* start() has been called on the running service, and after a stop() and
\* a second start() there is one loop, the task of the second start
C30_Witness ==
    /\ sched.warned
    /\ sched.running
    /\ sched.starts = 2
    /\ sched.task = 2
    /\ sched.loops = 1
    /\ sched.pc = "gather"

\* C31: when stop returns the service is not running and holds no loop
\* task, no semaphore and no worker pool; a stop of a service that is not
\* running (never started, or stopped before) changes nothing else.
C31_StopClearsAndIsIdempotent ==
    [][Poll_Stop =>
         /\ ~sched'.running
         /\ sched'.task = 0 /\ sched'.semaphore = 0 /\ sched'.executor = 0
         /\ ~sched.running =>
               /\ sched' = [sched EXCEPT !.idle_stop = TRUE]
               /\ UNCHANGED <<mailboxes, requests, emails, proc, sendCount,
                              clock, webhookOn, calls, units, cycles>>]_vars

\* stop() has run on a service never started and on one stopped before
C31_Witness == sched.idle_stop /\ sched.starts > 0 /\ ~sched.running

\* C32: stop returns in whatever phase the running service is at an await
\* (before or in the first cycle, in the interval sleep, with a unit that
\* waits for the semaphore, with a unit whose blocking fetch is hung): it
\* ends the loop task and every unit, and the blocking fetches that
\* workers still run are left running, not waited for.
C32_StopAlwaysReturns ==
    /\ [](sched.running
            /\ (\A m \in DOMAIN units : units[m].pc \notin {"check", "add"})
          => ENABLED Poll_Stop)
    /\ [][Poll_Stop /\ sched.running =>
            /\ units' = NoUnits
            /\ sched'.loops = sched.loops - 1
            /\ sched'.old = sched.old + Busy(sched, units)]_vars

\* stop() has returned while a blocking fetch was still running
C32_Witness == ~sched.running /\ sched.loops = 0 /\ sched.old > 0

\* C33: what send does is post, wait 1s, post, wait 5s, post, wait 15s,
\* post, cut off after its last post: the k-th wait comes right after the
\* k-th post, which failed, and nothing follows a post that succeeded or
\* the 4th post.
C33_WaitsBetweenAttempts ==
    proc["w1"].op = "send" =>
      LET script == proc["w1"].arg
          r      == proc["w1"].wres
      IN  /\ r.trace
               = SubSeq(<<0, 1, 0, 5, 0, 15, 0>>, 1, 2 * r.attempts - 1)
          /\ \A k \in 1..3 :
                (\E i \in DOMAIN r.trace : r.trace[i] = <<1, 5, 15>>[k])
                  => k < r.attempts /\ script[k] \notin {"2xx", "raise"}
          /\ r.success => r.trace[Len(r.trace)] = 0

\* three failures and a success: all three waits were made
C33_Witness ==
    /\ proc["w1"].op = "send"
    /\ proc["w1"].wres.success
    /\ proc["w1"].wres.trace = <<0, 1, 0, 5, 0, 15, 0>>

\* C34: when a unit has returned, every message of its batch is in the
\* emails table (stored by the unit, or a duplicate of a stored row), also
\* when the add of another message of the batch raised, and saved_count is
\* the number of rows the unit added.
C34_BatchSurvivesFailure ==
    \A m \in DOMAIN units :
      units[m].pc = "done" =>
        /\ \A i \in DOMAIN units[m].batch :
              exists_by_message_id(emails, units[m].batch[i])
        /\ units[m].saved
             = Cardinality({ k \in DOMAIN emails :
                               /\ emails[k].mailbox_id = m
                               /\ emails[k].received_at = cycles })

\* C35: a sweep loads the unprocessed emails, the oldest received first
\* and at most limit of them, calls process_email once on each in that
\* order, and returns one result per loaded email; an exception on one
\* email becomes an unmatched result and the emails after it are still
\* processed.
C35_SweepProcessesEachLoaded ==
    /\ [][SW_Load("w2", 1) \/ SW_Load("w2", 2) =>
            LET l == proc'["w2"].loaded
            IN  /\ Len(l) <= proc'["w2"].limit
                /\ \A i \in DOMAIN l : ~l[i].is_processed /\ emails[l[i].id] = l[i]
                /\ \A i, j \in DOMAIN l :
                      i < j => l[i].received_at <= l[j].received_at
                /\ \A k \in DOMAIN emails :
                      ~emails[k].is_processed
                      /\ (\A i \in DOMAIN l : l[i].id # k)
                      => /\ Len(l) = proc'["w2"].limit
                         /\ \A i \in DOMAIN l :
                               l[i].received_at <= emails[k].received_at]_vars
    /\ [](LET pr == proc["w2"]
          IN  /\ pr.op = "sweep" =>
                    /\ Len(pr.results) + Len(pr.queue)
                         + (IF pr.pc = "sw_next" THEN 0 ELSE 1)
                         = Len(pr.loaded)
                    /\ pr.queue = SubSeq(pr.loaded,
                                         Len(pr.loaded) - Len(pr.queue) + 1,
                                         Len(pr.loaded))
                    /\ pr.pc # "sw_next" =>
                          pr.email.id
                            = pr.loaded[Len(pr.results) + 1].id
              /\ pr.op = "swept" => Len(pr.results) = Len(pr.loaded)
              /\ \A i \in DOMAIN pr.results :
                    pr.results[i].error => ~pr.results[i].matched)

\* a sweep of two emails went on after the first one raised
C35_Witness ==
    /\ proc["w2"].op = "swept"
    /\ Len(proc["w2"].results) = 2
    /\ proc["w2"].results[1].error

\* unprocessed emails that were received before email k
OlderUnprocessed(k) ==
    { j \in DOMAIN emails :
        ~emails[j].is_processed
        /\ emails[j].received_at < emails[k].received_at }

Eligible(k) ==
    /\ k \in DOMAIN emails
    /\ ~emails[k].is_processed
    /\ emails[k].mailbox_id \in DOMAIN mailboxes
    /\ PendingIds(mailboxes[emails[k].mailbox_id].username) # {}

\* the sweep has called process_email on email k
PassedToProcessEmail(k) ==
    /\ proc["w2"].op = "sweep"
    /\ proc["w2"].pc # "sw_next"
    /\ proc["w2"].email.id = k

\* C39: under repeated sweeps, an unprocessed email whose mailbox address
\* has a Pending request is passed to process_email (unless it stops being
\* such an email first), whatever older emails stay unprocessed.
C39_EligibleEventuallyProcessed ==
    \A k \in 1..2 :
       Eligible(k) ~> (PassedToProcessEmail(k) \/ ~Eligible(k))

\* C37: when a RegisterWait call has ended without success, no mailbox is
\* Occupied without a Pending WaitRequest that references it.
C37_RegisterAllOrNothing ==
    /\ AtRest("w1")
    /\ proc["w1"].op = "register"
    /\ proc["w1"].result # "OK"
    => \A m \in DOMAIN mailboxes :
          mailboxes[m].status = OCCUPIED =>
            \E r \in DOMAIN requests :
               /\ requests[r].status = PENDING
               /\ requests[r].mailbox_id = m

\* C38: a release written for request R, by the webhook notification or
\* by CancelWait, does not turn Available a mailbox for which a request
\* registered after R is Pending.
C38_ReleaseSparesNewLease ==
    [][\A p \in Workers :
         Notify_ReleaseUpdate(p) \/ CW_ReleaseUpdate(p) =>
           \A m \in DOMAIN mailboxes :
              /\ mailboxes[m].status = OCCUPIED
              /\ mailboxes'[m].status = AVAILABLE
              => ~\E r \in DOMAIN requests :
                    /\ r > proc[p].req.id
                    /\ requests[r].status = PENDING
                    /\ requests[r].mailbox_id = m]_vars

\* C40: from the return of stop() to the next start() no email is added
\* to the store and no unit exists, also when a blocking fetch that was
\* running at the stop returns in its worker thread.
C40_NoSaveAfterStop ==
    /\ [](~sched.running => units = NoUnits)
    /\ [][~sched.running /\ ~sched'.running => emails' = emails]_vars

\* after a run that had stored an email, a fetch that was in flight at the
\* stop has returned while the service was stopped
C40_Witness ==
    ~sched.running /\ sched.late /\ sched.old = 0 /\ Len(emails) > 0

====
